---- MODULE Spec2Model ----
(***************************************************************************)
(* A model of the p2vn scene engine: GameEngine and ToolExecutor, the      *)
(* zustand game store, the BlueprintRegistry look-ups and the SceneView    *)
(* component that drives the engine.                                       *)
(*                                                                         *)
(* Strings are sequences of tokens (a token is a TLA+ string): narrative   *)
(* text is a sequence of characters and words, JSON text is a sequence of  *)
(* JSON tokens.  JavaScript values are records [t, n, s, a, o]: the type   *)
(* tag, the number, the string (tokens), the array elements and the        *)
(* object's (key, value) pairs.                                            *)
(***************************************************************************)
EXTENDS Integers, Sequences, FiniteSets, TLC

VARIABLES
    store,                \* useGameStore state (gameStore.ts)
    sceneModel,           \* GameEngine.sceneModel
    conversationHistory,  \* GameEngine.conversationHistory
    playerInputCallback,  \* GameEngine.playerInputCallback is set
    continueCallback,     \* GameEngine.continueCallback is set
    runs,                 \* one record per startScene invocation (its async frame)
    view,                 \* SceneView React state
    calls,                \* chatCompletion requests and tool-call requests so far
    execOut,              \* last value returned by ToolExecutor.execute (SpecExec)
    registry,             \* BlueprintRegistry: what load() left in it
    promptOut,            \* last value returned by generateSystemPrompt (SpecPrompt)
    splitOut,             \* last text split by displayDialogue and its chunks (SpecSplit)
    app                   \* App React state and the state of player2Service (SpecApp)

vars == <<store, sceneModel, conversationHistory, playerInputCallback,
          continueCallback, runs, view, calls, execOut, registry, promptOut, splitOut,
          app>>

(***************************************************************************)
(* Bounds of the model                                                     *)
(***************************************************************************)
MaxRuns == 4
MaxTurnRuns == 1
MaxCalls == 6
MaxSceneCalls == 4
MaxToolCalls == 3
MaxTurnToolCalls == 6
MaxBatch == 3
MaxExecSteps == 2

(***************************************************************************)
(* JavaScript values                                                       *)
(***************************************************************************)
JV(t, n, s, a, o) == [t |-> t, n |-> n, s |-> s, a |-> a, o |-> o]
Undefined == JV("undefined", 0, <<>>, <<>>, <<>>)
Null == JV("null", 0, <<>>, <<>>, <<>>)
NaN == JV("nan", 0, <<>>, <<>>, <<>>)
Func == JV("function", 0, <<>>, <<>>, <<>>)
Num(k) == JV("number", k, <<>>, <<>>, <<>>)
Str(s) == JV("string", 0, s, <<>>, <<>>)
Bool(b) == JV("boolean", IF b THEN 1 ELSE 0, <<>>, <<>>, <<>>)
Arr(a) == JV("array", 0, <<>>, a, <<>>)
Obj(o) == JV("object", 0, <<>>, <<>>, o)

\* ToBoolean
Truthy(v) ==
    CASE v.t \in {"undefined", "null", "nan"} -> FALSE
      [] v.t = "number" -> v.n # 0
      [] v.t = "boolean" -> v.n = 1
      [] v.t = "string" -> v.s # <<>>
      [] OTHER -> TRUE

\* ToPropertyKey for the values the model uses as keys
KeyOf(v) ==
    CASE v.t = "string" -> v.s
      [] v.t = "number" -> <<ToString(v.n)>>
      [] v.t = "boolean" -> <<IF v.n = 1 THEN "true" ELSE "false">>
      [] v.t = "nan" -> <<"NaN">>
      [] OTHER -> <<v.t>>

HasKey(ob, k) == \E i \in 1..Len(ob.o) : ob.o[i][1] = k

\* ob[k] of an object value
Get(ob, k) ==
    IF HasKey(ob, k)
    THEN ob.o[CHOOSE i \in 1..Len(ob.o) : ob.o[i][1] = k][2]
    ELSE Undefined

\* ob[k] = v : an existing key keeps its place, a new key goes last
Put(ob, k, v) ==
    IF HasKey(ob, k)
    THEN Obj([i \in 1..Len(ob.o) |-> IF ob.o[i][1] = k THEN <<k, v>> ELSE ob.o[i]])
    ELSE Obj(Append(ob.o, <<k, v>>))

\* a + b for the operand types the model feeds it (numbers, undefined, null, booleans)
Plus(a, b) ==
    LET num(v) == CASE v.t = "number" -> Num(v.n)
                    [] v.t = "boolean" -> Num(v.n)
                    [] v.t = "null" -> Num(0)
                    [] OTHER -> NaN
    IN IF num(a).t = "nan" \/ num(b).t = "nan" THEN NaN ELSE Num(num(a).n + num(b).n)

(***************************************************************************)
(* JSON.stringify and JSON.parse over token sequences                      *)
(***************************************************************************)
Quote == "\""

RECURSIVE Stringify(_)
RECURSIVE StringifyElems(_, _)
RECURSIVE StringifyMembers(_, _, _)

\* the elements a[i..] of an array, comma separated (undefined prints as null)
StringifyElems(a, i) ==
    IF i > Len(a) THEN <<>>
    ELSE (IF i > 1 THEN <<",">> ELSE <<>>)
         \o (IF a[i].t \in {"undefined", "function"} THEN <<"null">> ELSE Stringify(a[i]))
         \o StringifyElems(a, i + 1)

\* the members o[i..] of an object; a member whose value is undefined or a
\* function is left out
StringifyMembers(o, i, first) ==
    IF i > Len(o) THEN <<>>
    ELSE IF o[i][2].t \in {"undefined", "function"}
         THEN StringifyMembers(o, i + 1, first)
         ELSE (IF first THEN <<>> ELSE <<",">>)
              \o <<Quote>> \o o[i][1] \o <<Quote, ":">> \o Stringify(o[i][2])
              \o StringifyMembers(o, i + 1, FALSE)

Stringify(v) ==
    CASE v.t = "null" -> <<"null">>
      [] v.t = "nan" -> <<"null">>
      [] v.t = "number" -> <<ToString(v.n)>>
      [] v.t = "boolean" -> <<IF v.n = 1 THEN "true" ELSE "false">>
      [] v.t = "string" -> <<Quote>> \o v.s \o <<Quote>>
      [] v.t = "array" -> <<"[">> \o StringifyElems(v.a, 1) \o <<"]">>
      [] v.t = "object" -> <<"{">> \o StringifyMembers(v.o, 1, TRUE) \o <<"}">>
      [] OTHER -> <<>>

NumRange == -2..2
NumTokens == {ToString(k) : k \in NumRange}
NumOfToken(tok) == CHOOSE k \in NumRange : ToString(k) = tok

ParseFail == [ok |-> FALSE, v |-> Undefined, p |-> 0]
ParseOk(v, p) == [ok |-> TRUE, v |-> v, p |-> p]

RECURSIVE ParseValue(_, _)
RECURSIVE ParseElems(_, _, _)
RECURSIVE ParseMembers(_, _, _)

\* a string literal starting at the opening quote toks[p]
ParseString(toks, p) ==
    LET closing == {q \in (p + 1)..Len(toks) : toks[q] = Quote}
    IN IF closing = {} THEN ParseFail
       ELSE LET q == CHOOSE x \in closing : \A y \in closing : x <= y
            IN ParseOk(Str(SubSeq(toks, p + 1, q - 1)), q + 1)

\* after the array element e: "]" ends the array, "," goes on
ElemsAfter(toks, e, acc) ==
    IF ~e.ok \/ e.p > Len(toks) THEN ParseFail
    ELSE IF toks[e.p] = "]" THEN ParseOk(Arr(Append(acc, e.v)), e.p + 1)
    ELSE IF toks[e.p] = "," THEN ParseElems(toks, e.p + 1, Append(acc, e.v))
    ELSE ParseFail

\* array elements from toks[p], after "[" or after a ","
ParseElems(toks, p, acc) == ElemsAfter(toks, ParseValue(toks, p), acc)

\* after the value e of member key: "}" ends the object, "," goes on
MembersAfterValue(toks, key, e, acc) ==
    IF ~e.ok \/ e.p > Len(toks) THEN ParseFail
    ELSE IF toks[e.p] = "}" THEN ParseOk(Put(acc, key, e.v), e.p + 1)
    ELSE IF toks[e.p] = "," THEN ParseMembers(toks, e.p + 1, Put(acc, key, e.v))
    ELSE ParseFail

\* after the member name k: a ":" and the value
MembersAfterKey(toks, k, acc) ==
    IF ~k.ok \/ k.p > Len(toks) \/ toks[k.p] # ":" THEN ParseFail
    ELSE MembersAfterValue(toks, k.v.s, ParseValue(toks, k.p + 1), acc)

\* object members from toks[p], after "{" or after a ","
ParseMembers(toks, p, acc) ==
    IF p > Len(toks) \/ toks[p] # Quote THEN ParseFail
    ELSE MembersAfterKey(toks, ParseString(toks, p), acc)

ParseValue(toks, p) ==
    IF p > Len(toks) THEN ParseFail
    ELSE CASE toks[p] = "null" -> ParseOk(Null, p + 1)
           [] toks[p] = "true" -> ParseOk(Bool(TRUE), p + 1)
           [] toks[p] = "false" -> ParseOk(Bool(FALSE), p + 1)
           [] toks[p] \in NumTokens -> ParseOk(Num(NumOfToken(toks[p])), p + 1)
           [] toks[p] = Quote -> ParseString(toks, p)
           [] toks[p] = "[" ->
                IF p + 1 <= Len(toks) /\ toks[p + 1] = "]"
                THEN ParseOk(Arr(<<>>), p + 2)
                ELSE ParseElems(toks, p + 1, <<>>)
           [] toks[p] = "{" ->
                IF p + 1 <= Len(toks) /\ toks[p + 1] = "}"
                THEN ParseOk(Obj(<<>>), p + 2)
                ELSE ParseMembers(toks, p + 1, Obj(<<>>))
           [] OTHER -> ParseFail

\* the whole text must be one value
WholeText(toks, r) ==
    IF r.ok /\ r.p = Len(toks) + 1 THEN [ok |-> TRUE, v |-> r.v]
    ELSE [ok |-> FALSE, v |-> Undefined]

\* JSON.parse(text): [ok |-> FALSE] stands for the SyntaxError it throws
JSONParse(toks) == WholeText(toks, ParseValue(toks, 1))

(***************************************************************************)
(* BlueprintRegistry: the loaded blueprints                                *)
(***************************************************************************)
\* characters map; introduction is whether the blueprint has an introduction text
Characters ==
    [mc    |-> [name |-> <<"Alex">>, role |-> "player", introduction |-> FALSE],
     riley |-> [name |-> <<"Riley">>, role |-> "npc", introduction |-> TRUE],
     sam   |-> [name |-> <<"Sam">>, role |-> "npc", introduction |-> TRUE]]

Goal(id, owner, description, next) ==
    [id |-> id, character_id |-> owner, description |-> description,
     on_complete |-> [transition_to |-> next]]

\* scenes map; "" is an absent character_id or transition_to, <<>> an absent text;
\* scene_3 has no non-player participant, the owner of g7 is no character
Scenes ==
    [scene_1 |-> [id |-> "scene_1", title |-> <<"Arrival">>,
                  characters |-> <<"mc", "riley">>,
                  goals |-> <<Goal("g0", "", <<"arrive">>, ""),
                              Goal("g1", "riley", <<"befriend">>, "scene_2"),
                              Goal("g4", "", <<"arrive">>, "scene_3")>>,
                  intro |-> <<>>, outro |-> <<>>],
     scene_2 |-> [id |-> "scene_2", title |-> <<"Harbour">>,
                  characters |-> <<"mc", "sam">>,
                  goals |-> <<Goal("g2", "", <<"explore">>, "")>>,
                  intro |-> <<"Fog", ".">>, outro |-> <<"Dusk", ".">>],
     scene_3 |-> [id |-> "scene_3", title |-> <<"Alone">>,
                  characters |-> <<"mc">>,
                  goals |-> <<>>,
                  intro |-> <<>>, outro |-> <<>>],
     scene_4 |-> [id |-> "scene_4", title |-> <<"Attic">>,
                  characters |-> <<"mc", "riley">>,
                  goals |-> <<Goal("g6", "", <<"wait">>, ""),
                              Goal("g7", "ghost", <<"haunt">>, "")>>,
                  intro |-> <<>>, outro |-> <<>>]]

Items == [key |-> [id |-> "key", name |-> <<"Key">>]]

Game == [player_character_id |-> "mc"]

CurrentLanguage == "en_US"

\* the registry after load(): the language and the definitions it holds
Registry ==
    [currentLanguage |-> CurrentLanguage, game |-> Game, characters |-> Characters,
     scenes |-> Scenes, items |-> Items]

\* Map.get of a string-keyed map with a JavaScript value as the key
MapHas(map, k) == k.t = "string" /\ Len(k.s) = 1 /\ k.s[1] \in DOMAIN map

\* getCharacter / getScene: [ok |-> FALSE] stands for the Error they throw
getCharacter(id) ==
    IF id \in DOMAIN Characters THEN [ok |-> TRUE, v |-> Characters[id]]
    ELSE [ok |-> FALSE, v |-> Characters["mc"]]

getScene(id) ==
    IF id \in DOMAIN Scenes THEN [ok |-> TRUE, v |-> Scenes[id]]
    ELSE [ok |-> FALSE, v |-> Scenes["scene_1"]]

\* a lookup that finds the key whatever is asked for
getItemAlways(k) == "key"

\* getItem: the item id, or "" for null
getItem(k) == IF MapHas(Items, k) THEN k.s[1] ELSE ""

(***************************************************************************)
(* gameStore: state and mutators                                           *)
(***************************************************************************)
EmptyStore ==
    [affinity |-> Obj(<<>>), flags |-> Obj(<<>>), vars |-> Obj(<<>>),
     inventory |-> <<>>, dossier |-> [objectives |-> <<>>, notes |-> <<>>],
     current_route |-> "", current_chapter |-> "", current_scene |-> "",
     unlocked_routes |-> <<>>, introduced_characters |-> <<>>]

Includes(seq, x) == \E i \in 1..Len(seq) : seq[i] = x

markCharacterIntroduced(st, charId) ==
    [st EXCEPT !.introduced_characters =
        IF Includes(@, charId) THEN @ ELSE Append(@, charId)]

\* an adjustment that stores the delta in place of the sum
setAffinityOverwrite(st, charId, delta) ==
    [st EXCEPT !.affinity = Put(@, KeyOf(charId), delta)]

setAffinity(st, charId, delta) ==
    LET k == KeyOf(charId)
        old == Get(st.affinity, k)
    IN [st EXCEPT !.affinity = Put(@, k, Plus(IF Truthy(old) THEN old ELSE Num(0), delta))]

setFlag(st, flagId, value) ==
    [st EXCEPT !.flags = Put(@, KeyOf(flagId), value)]

\* an addition that leaves out an item the inventory has already
addItemOnce(st, item) ==
    IF Includes(st.inventory, item) THEN st
    ELSE [st EXCEPT !.inventory = Append(@, item)]

addItem(st, item) ==
    [st EXCEPT !.inventory = Append(@, item)]

\* an insertion that does not look whether the text is there already
updateDossierAlways(st, type, text) ==
    IF type = Str(<<"objective">>)
    THEN [st EXCEPT !.dossier.objectives = Append(@, text)]
    ELSE [st EXCEPT !.dossier.notes = Append(@, text)]

updateDossier(st, type, text) ==
    LET key == IF type = Str(<<"objective">>) THEN "objectives" ELSE "notes"
        currentItems == st.dossier[key]
    IN IF Includes(currentItems, text) THEN st
       ELSE [st EXCEPT !.dossier[key] = Append(currentItems, text)]

\* a clearing that leaves the objectives where they are
keepObjectives(st) == st

\* a clearing that takes the flags with the objectives
clearObjectivesAndFlags(st) ==
    [st EXCEPT !.dossier.objectives = <<>>, !.flags = Obj(<<>>)]

clearObjectives(st) ==
    [st EXCEPT !.dossier.objectives = <<>>]

setCurrentScene(st, route, chapter, scene) ==
    [st EXCEPT !.current_route = route, !.current_chapter = chapter,
               !.current_scene = scene]

\* the store as the object gameStore.getState() returns
ItemObj(id) == Obj(<< <<<<"id">>, Str(<<id>>)>>, <<<<"name">>, Str(Items[id].name)>> >>)
StrArr(ids) == Arr([i \in 1..Len(ids) |-> Str(<<ids[i]>>)])
StateObject(st) ==
    Obj(<< <<<<"affinity">>, st.affinity>>,
           <<<<"flags">>, st.flags>>,
           <<<<"vars">>, st.vars>>,
           <<<<"inventory">>, Arr([i \in 1..Len(st.inventory) |-> ItemObj(st.inventory[i])])>>,
           <<<<"dossier">>, Obj(<< <<<<"objectives">>, Arr(st.dossier.objectives)>>,
                                  <<<<"notes">>, Arr(st.dossier.notes)>> >>)>>,
           <<<<"current_route">>, Str(<<st.current_route>>)>>,
           <<<<"current_chapter">>, Str(<<st.current_chapter>>)>>,
           <<<<"current_scene">>, Str(<<st.current_scene>>)>>,
           <<<<"unlocked_routes">>, StrArr(st.unlocked_routes)>>,
           <<<<"introduced_characters">>, StrArr(st.introduced_characters)>>,
           <<<<"setAffinity">>, Func>>, <<<<"setFlag">>, Func>>,
           <<<<"addItem">>, Func>>, <<<<"updateDossier">>, Func>>,
           <<<<"clearObjectives">>, Func>>, <<<<"setCurrentScene">>, Func>>,
           <<<<"save">>, Func>>, <<<<"load">>, Func>> >>)

(***************************************************************************)
(* ToolExecutor                                                            *)
(***************************************************************************)
\* what a piece of code did: returned value v with store st, or threw error v
Returned(v, st) == [threw |-> FALSE, v |-> v, store |-> st]
\* an exception that leaves the store emptied behind it
ThrewAndReset(msg, st) == [threw |-> TRUE, v |-> Str(msg), store |-> EmptyStore]
Threw(msg, st) == [threw |-> TRUE, v |-> Str(msg), store |-> st]

\* key.split('.')
RECURSIVE Split(_, _, _)
Split(toks, i, cur) ==
    IF i > Len(toks) THEN <<cur>>
    ELSE IF toks[i] = "." THEN <<cur>> \o Split(toks, i + 1, <<>>)
    ELSE Split(toks, i + 1, Append(cur, toks[i]))

\* Object.prototype, which every plain object inherits from
ObjectPrototype ==
    Obj(<< <<<<"constructor">>, Func>>, <<<<"toString">>, Func>>,
           <<<<"hasOwnProperty">>, Func>> >>)

\* value?.[part]: an own property, else one found along the prototype chain
\* (the characters and the length of a string are not modelled)
Member(value, part) ==
    CASE value.t = "object" ->
            IF HasKey(value, part) THEN Get(value, part)
            ELSE IF part = <<"__proto__">> THEN ObjectPrototype
            ELSE Get(ObjectPrototype, part)
      [] value.t = "array" ->
            IF Len(part) = 1 /\ part[1] \in NumTokens
               /\ NumOfToken(part[1]) >= 0 /\ NumOfToken(part[1]) < Len(value.a)
            THEN value.a[NumOfToken(part[1]) + 1]
            ELSE IF part = <<"length">> THEN Num(Len(value.a))
            ELSE Undefined
      [] OTHER -> Undefined

\* acc[key] = value on a plain object: the key __proto__ is the accessor of
\* Object.prototype, whose setter adds no own property
Assign(acc, key, value) ==
    IF key = <<"__proto__">> THEN acc ELSE Put(acc, key, value)

\* the loop over parts, stopping at the first undefined
RECURSIVE Resolve(_, _, _)
Resolve(value, parts, i) ==
    IF i > Len(parts) THEN value
    ELSE LET next == Member(value, parts[i])
         IN IF next = Undefined THEN next ELSE Resolve(next, parts, i + 1)

\* keys.reduce(...) from element i on, acc being the object built so far
RECURSIVE GetStateFrom(_, _, _, _)
GetStateFrom(state, keys, i, acc) ==
    IF i > Len(keys) THEN [threw |-> FALSE, v |-> acc]
    ELSE IF keys[i].t # "string"
         THEN [threw |-> TRUE, v |-> Str(<<"key.split is not a function">>)]
         ELSE GetStateFrom(state, keys, i + 1,
                  Assign(acc, keys[i].s, Resolve(state, Split(keys[i].s, 1, <<>>), 1)))

getState(st, keys) ==
    IF keys.t # "array"
    THEN Threw(<<"keys.reduce is not a function">>, st)
    ELSE LET r == GetStateFrom(StateObject(st), keys.a, 1, Obj(<<>>))
         IN [threw |-> r.threw, v |-> r.v, store |-> st]

\* args.<name>: reading a property of null or undefined throws
CanRead(args) == args.t \notin {"null", "undefined"}
Arg(args, name) == IF args.t = "object" THEN Get(args, <<name>>) ELSE Undefined

Failure(msg) ==
    Obj(<< <<<<"success">>, Bool(FALSE)>>, <<<<"error">>, Str(msg)>> >>)
Success == Obj(<< <<<<"success">>, Bool(TRUE)>> >>)

\* the switch of execute, without the try/catch around it
ExecuteSwitch(toolName, args, st) ==
    CASE toolName = "player2_get_state" ->
            IF ~CanRead(args) THEN Threw(<<"Cannot read properties of ", args.t>>, st)
            ELSE getState(st, Arg(args, "keys"))
      [] toolName = "player2_set_affinity" ->
            IF ~CanRead(args) THEN Threw(<<"Cannot read properties of ", args.t>>, st)
            ELSE Returned(Success, setAffinity(st, Arg(args, "character_id"), Arg(args, "delta")))
      [] toolName = "player2_set_flag" ->
            IF ~CanRead(args) THEN Threw(<<"Cannot read properties of ", args.t>>, st)
            ELSE Returned(Success, setFlag(st, Arg(args, "flag_id"), Arg(args, "value")))
      [] toolName = "player2_transfer_item" ->
            IF ~CanRead(args) THEN Threw(<<"Cannot read properties of ", args.t>>, st)
            ELSE LET item == getItem(Arg(args, "item_id"))
                     receiverId == Arg(args, "receiver_id")
                 IN IF item = ""
                    THEN Returned(Failure(<<"Item ">> \o KeyOf(Arg(args, "item_id"))
                                          \o <<" not found">>), st)
                    ELSE IF receiverId = Str(<<Game.player_character_id>>)
                    THEN Returned(Obj(<< <<<<"success">>, Bool(TRUE)>>,
                                        <<<<"item_transferred">>, Str(Items[item].name)>> >>),
                                  addItem(st, item))
                    ELSE Returned(Failure(<<"Only transfers to player are supported">>), st)
      [] toolName = "player2_update_dossier" ->
            IF ~CanRead(args) THEN Threw(<<"Cannot read properties of ", args.t>>, st)
            ELSE Returned(Success, updateDossier(st, Arg(args, "type"), Arg(args, "text")))
      [] toolName = "player2_end_scene" ->
            IF ~CanRead(args) THEN Threw(<<"Cannot read properties of ", args.t>>, st)
            ELSE Returned(Obj(<< <<<<"terminal">>, Bool(TRUE)>>,
                                 <<<<"result">>, Arg(args, "result")>>,
                                 <<<<"summary">>, Arg(args, "summary")>> >>), st)
      [] OTHER -> Returned(Failure(<<"Unknown tool">>), st)

\* catch (error) { return {success: false, error: error.message} }
Caught(r) == IF r.threw THEN Returned(Failure(r.v.s), r.store) ELSE r

\* execute without its try/catch: what is thrown inside escapes
ExecuteUncaught(toolName, args, st) == ExecuteSwitch(toolName, args, st)

\* execute: try { switch } catch
Execute(toolName, args, st) == Caught(ExecuteSwitch(toolName, args, st))

\* a test that is content with a result that has a key named terminal
IsTerminalByKey(result) ==
    result.t = "object" /\ HasKey(result, <<"terminal">>)

\* result && typeof result === 'object' && 'terminal' in result && result.terminal
IsTerminal(result) ==
    /\ Truthy(result)
    /\ result.t \in {"object", "array"}
    /\ result.t = "object" /\ HasKey(result, <<"terminal">>)
    /\ Truthy(Get(result, <<"terminal">>))

(***************************************************************************)
(* PromptGenerator                                                         *)
(***************************************************************************)
getLanguageInstruction(languageCode) ==
    LET languageNames == [en_US |-> "English", fr_FR |-> "French", de_DE |-> "German",
                          it_IT |-> "Italian", pt_BR |-> "Portuguese", ru_RU |-> "Russian",
                          ja_JP |-> "Japanese", ko_KR |-> "Korean",
                          zh_CN |-> "Chinese (Simplified)", zh_TW |-> "Chinese (Traditional)",
                          ar_SA |-> "Arabic", hi_IN |-> "Hindi"]
        languageName == IF languageCode \in DOMAIN languageNames
                        THEN languageNames[languageCode] ELSE "English"
    IN IF languageCode = "en_US" THEN <<>>
       ELSE <<"\n", "**CRITICAL LANGUAGE REQUIREMENT**: You MUST respond ONLY in ",
              languageName,
              ". Every word of your dialogue, thoughts, and responses must be in ",
              languageName, ". This is MANDATORY.">>

\* a goal section that lists every goal of the scene
RECURSIVE GoalLinesOfAll(_, _, _)
GoalLinesOfAll(goals, characterId, i) ==
    IF i > Len(goals) THEN <<>>
    ELSE <<"- ">> \o goals[i].description \o <<"\n">>
         \o GoalLinesOfAll(goals, characterId, i + 1)

RECURSIVE GoalLines(_, _, _)
GoalLines(goals, characterId, i) ==
    IF i > Len(goals) THEN <<>>
    ELSE (IF goals[i].character_id = characterId
          THEN <<"- ">> \o goals[i].description \o <<"\n">> ELSE <<>>)
         \o GoalLines(goals, characterId, i + 1)

\* generateSystemPrompt over a registry given as a value;
\* [ok |-> FALSE] stands for the look-up error of getScene / getCharacter
generateSystemPromptFrom(reg, sceneId, characterId) ==
    IF sceneId \notin DOMAIN reg.scenes \/ characterId \notin DOMAIN reg.characters
    THEN [ok |-> FALSE, v |-> <<>>]
    ELSE [ok |-> TRUE,
          v |-> <<"**SCENE**: ">> \o reg.scenes[sceneId].title
                \o <<"**YOUR ROLE**: You are ">> \o reg.characters[characterId].name
                \o getLanguageInstruction(reg.currentLanguage)
                \o <<"**YOUR GOALS IN THIS SCENE**:">>
                \o GoalLines(reg.scenes[sceneId].goals, characterId, 1)
                \o <<"Respond naturally as ">> \o reg.characters[characterId].name]

generateSystemPrompt(sceneId, characterId) ==
    generateSystemPromptFrom(Registry, sceneId, characterId)

(***************************************************************************)
(* GameEngine: messages, the log, suspension                               *)
(***************************************************************************)
Msg(role, content) ==
    [role |-> role, content |-> content, tool_call_id |-> "",
     has_tools |-> FALSE, tool_calls |-> <<>>]
\* a tool message that does not say which call it answers
ToolMsgAnonymous(id, content) ==
    [role |-> "tool", content |-> content, tool_call_id |-> "",
     has_tools |-> FALSE, tool_calls |-> <<>>]

ToolMsg(id, content) ==
    [role |-> "tool", content |-> content, tool_call_id |-> id,
     has_tools |-> FALSE, tool_calls |-> <<>>]

EnteredScene == <<"system: user entered the scene">>

\* one thing a run did: an event handed to onUpdate, a request, a tool execution
Entry(type, scene, text) ==
    [type |-> type, scene |-> scene, text |-> text,
     result |-> Undefined, summary |-> Undefined]

\* the run's record of what it did, in order
Logged(w, r, e) == [w EXCEPT !.runs[r].log = Append(@, e)]

\* the frame of one startScene invocation
NewRun(sceneId) ==
    [scene |-> sceneId, pc |-> "start", then |-> "", messages |-> <<>>, i |-> 0,
     text |-> <<>>, ended |-> FALSE, result |-> Undefined, summary |-> Undefined,
     sentences |-> <<>>, k |-> 0, turn |-> 0, turnCalls |-> 0, exhausted |-> FALSE,
     log |-> <<>>]

\* the promise of the invocation settles: rejected ("failed") or resolved ("done")
Settle(w, r, pc) ==
    [w EXCEPT !.runs[r] = [NewRun(@.scene) EXCEPT !.pc = pc, !.turn = w.runs[r].turn,
                                                  !.turnCalls = w.runs[r].turnCalls,
                                                  !.exhausted = w.runs[r].exhausted,
                                                  !.log = w.runs[r].log]]

\* the invocation throws: its promise is rejected with the error of `cause`
Reject(w, r, cause) == Settle(Logged(w, r, Entry("rejected", cause, <<>>)), r, "failed")

\* SceneView.handleUpdate for the events that only set sceneState
handleUpdateState(w, type) ==
    CASE type = "scene_loaded" ->
            [w EXCEPT !.view.playerMessage = <<>>, !.view.showPlayerMessage = FALSE]
      [] type \in {"dialogue_chunk", "ai_thinking"} ->
            [w EXCEPT !.view.showPlayerMessage = FALSE]
      [] OTHER -> w

\* this.onUpdate(update) for an update without scene change
Emit(w, r, e) == handleUpdateState(Logged(w, r, e), e.type)

\* a wait that hands out the resolver without looking for the handler
waitForContinueUnchecked(w, r, then) ==
    [Logged(w, r, Entry("request_continue", "", <<>>))
        EXCEPT !.view.continueResolve = r,
               !.runs[r].pc = "continue", !.runs[r].then = then]

\* waitForContinue: the handler SceneView registers stores the resolver
waitForContinue(w, r, then) ==
    IF ~w.continueCallback THEN Reject(w, r, "waitForContinue")
    ELSE [Logged(w, r, Entry("request_continue", "", <<>>))
            EXCEPT !.view.continueResolve = r,
                   !.runs[r].pc = "continue", !.runs[r].then = then]

\* waitForPlayerInput
waitForPlayerInput(w, r) ==
    IF ~w.playerInputCallback THEN Reject(w, r, "waitForPlayerInput")
    ELSE [Logged(w, r, Entry("request_input", "", <<>>))
            EXCEPT !.view.inputResolve = r, !.runs[r].pc = "input"]

\* a reveal that takes the narration out of the scene definition it shows
typewriteTextConsuming(w, r, text, pc) ==
    [Emit(w, r, Entry("typewriter", "", text))
        EXCEPT !.runs[r].pc = pc,
               !.registry.scenes[w.sceneModel.blueprint.id].intro = <<>>]

\* a reveal that starts the timer without the typewriter event
typewriteTextSilent(w, r, text, pc) == [w EXCEPT !.runs[r].pc = pc]

\* typewriteText up to its await of the timer
typewriteText(w, r, text, pc) ==
    [Emit(w, r, Entry("typewriter", "", text)) EXCEPT !.runs[r].pc = pc]

(***************************************************************************)
(* GameEngine: chatTurn up to the inference request, startScene            *)
(***************************************************************************)
MaxIterations == 5

\* await player2Service.chatCompletion({messages, ...}): the request goes out
callInference(w, r, messages, i) ==
    [Logged(w, r, Entry("infer_call", "", <<>>))
        EXCEPT !.calls.chat = @ + 1,
               !.runs[r].pc = "infer", !.runs[r].messages = messages, !.runs[r].i = i,
               !.runs[r].turnCalls = @ + 1]

\* chatTurn from its first line to the first await
chatTurnBegin(w, r, message, systemPrompt) ==
    LET copied == w.conversationHistory
        withSystem == IF Len(copied) = 0
                      THEN Append(copied, Msg("system", systemPrompt)) ELSE copied
        messages == Append(withSystem, Msg("user", message))
        w1 == [w EXCEPT !.runs[r].turn = @ + 1, !.runs[r].turnCalls = 0,
                        !.runs[r].exhausted = FALSE]
    IN callInference(w1, r, messages, 0)

\* startConversation up to the first await
startConversation(w, r) ==
    LET systemPrompt == generateSystemPrompt(w.sceneModel.blueprint.id,
                                             w.sceneModel.activeCharacter)
    IN IF ~systemPrompt.ok THEN Reject(w, r, "generateSystemPrompt")
       ELSE chatTurnBegin(w, r, EnteredScene, systemPrompt.v)

\* find without the test of the role: the first character of the scene
FindFirstCharacter(chars, i) ==
    IF i > Len(chars) THEN [threw |-> FALSE, id |-> ""]
    ELSE [threw |-> ~getCharacter(chars[i]).ok, id |-> chars[i]]

\* a find that falls back on the first participant when none is a non-player
FindNPCOrPlayer(chars, i) ==
    IF \E j \in i..Len(chars) : Characters[chars[j]].role # "player"
    THEN [threw |-> FALSE,
          id |-> chars[CHOOSE j \in i..Len(chars) :
                          /\ Characters[chars[j]].role # "player"
                          /\ \A m \in i..(j - 1) : Characters[chars[m]].role = "player"]]
    ELSE [threw |-> FALSE, id |-> IF i <= Len(chars) THEN chars[i] ELSE ""]

\* sceneBlueprint.characters.find(...): the first character whose role is not player
RECURSIVE FindFirstNPC(_, _)
FindFirstNPC(chars, i) ==
    IF i > Len(chars) THEN [threw |-> FALSE, id |-> ""]
    ELSE LET char == getCharacter(chars[i])
         IN IF ~char.ok THEN [threw |-> TRUE, id |-> ""]
            ELSE IF char.v.role # "player" THEN [threw |-> FALSE, id |-> chars[i]]
            ELSE FindFirstNPC(chars, i + 1)

SceneGoalsOf(goals, charId) ==
    LET idx == {i \in 1..Len(goals) : goals[i].character_id = charId}
        RECURSIVE pick(_)
        pick(i) == IF i > Len(goals) THEN <<>>
                   ELSE (IF i \in idx THEN <<goals[i]>> ELSE <<>>) \o pick(i + 1)
    IN pick(1)

\* the loop filling sceneModel.characters; a failed look-up leaves it part filled
RECURSIVE FillCharacters(_, _, _)
FillCharacters(bp, i, acc) ==
    IF i > Len(bp.characters) THEN [threw |-> FALSE, characters |-> acc]
    ELSE IF ~getCharacter(bp.characters[i]).ok THEN [threw |-> TRUE, characters |-> acc]
    ELSE FillCharacters(bp, i + 1,
             Append(acc, [id |-> bp.characters[i],
                          sceneGoals |-> SceneGoalsOf(bp.goals, bp.characters[i])]))

\* the loop adding the objectives; a failed look-up leaves the earlier ones added
RECURSIVE AddObjectives(_, _, _)
AddObjectives(st, goals, i) ==
    IF i > Len(goals) THEN [threw |-> FALSE, store |-> st]
    ELSE LET owner == goals[i].character_id
         IN IF owner # "" /\ ~getCharacter(owner).ok THEN [threw |-> TRUE, store |-> st]
            ELSE LET objectiveText ==
                        IF owner # ""
                        THEN getCharacter(owner).v.name \o <<": ">> \o goals[i].description
                        ELSE goals[i].description
                 IN AddObjectives(updateDossier(st, Str(<<"objective">>), Str(objectiveText)),
                                  goals, i + 1)

\* startScene(sceneId) from the call to its first await (or its rejection)
startScene(w, sceneId) ==
    LET r == Len(w.runs) + 1
        w0 == [w EXCEPT !.runs = Append(@, NewRun(sceneId))]
        sceneBlueprint == getScene(sceneId)
    IN IF ~sceneBlueprint.ok THEN Reject(w0, r, "getScene")
       ELSE
       LET bp == sceneBlueprint.v
           w1 == [w0 EXCEPT !.conversationHistory = <<>>]
           firstNPC == FindFirstNPC(bp.characters, 1)
       IN IF firstNPC.threw THEN Reject(w1, r, "getCharacter")
          ELSE IF firstNPC.id = "" THEN Reject(w1, r, "No NPC found in scene")
          ELSE
          LET filled == FillCharacters(bp, 1, <<>>)
              w2 == [w1 EXCEPT !.sceneModel = [present |-> TRUE, blueprint |-> bp,
                                               characters |-> filled.characters,
                                               activeCharacter |-> firstNPC.id]]
          IN IF filled.threw THEN Reject(w2, r, "getCharacter")
             ELSE
             LET added == AddObjectives(clearObjectives(w2.store), bp.goals, 1)
                 w3 == [w2 EXCEPT !.store = added.store]
             IN IF added.threw THEN Reject(w3, r, "getCharacter")
                ELSE
                LET w4 == Emit(w3, r, Entry("scene_loaded", bp.id, <<>>))
                IN IF bp.intro # <<>>
                   THEN typewriteText(w4, r, bp.intro, "intro_timer")
                   ELSE startConversation(w4, r)

(***************************************************************************)
(* SceneView: the effect that registers the handlers and starts the scene  *)
(***************************************************************************)
UnintroducedNPCs(st) ==
    LET chars == Scenes[st.current_scene].characters
        RECURSIVE pick(_)
        pick(i) ==
            IF i > Len(chars) THEN <<>>
            ELSE (IF /\ Characters[chars[i]].role # "player"
                     /\ ~Includes(st.introduced_characters, chars[i])
                     /\ Characters[chars[i]].introduction
                  THEN <<chars[i]>> ELSE <<>>) \o pick(i + 1)
    IN pick(1)

sceneEffect(w) ==
    LET w1 == [w EXCEPT !.playerInputCallback = TRUE, !.continueCallback = TRUE]
        unintroducedNPCs == UnintroducedNPCs(w1.store)
    IN IF Len(unintroducedNPCs) > 0
       THEN [w1 EXCEPT !.view.pendingCharacterIntro = unintroducedNPCs[1]]
       ELSE startScene(w1, w1.store.current_scene)

(***************************************************************************)
(* GameEngine: endScene, displayDialogue, the turn after a reply           *)
(***************************************************************************)
\* the transition_to of the last goal that carries one
RECURSIVE NextSceneIdLast(_, _)
NextSceneIdLast(goals, i) ==
    IF i > Len(goals) THEN ""
    ELSE IF NextSceneIdLast(goals, i + 1) # "" THEN NextSceneIdLast(goals, i + 1)
    ELSE goals[i].on_complete.transition_to

\* goals.find((g) => g.on_complete.transition_to)?.on_complete.transition_to
RECURSIVE NextSceneId(_, _)
NextSceneId(goals, i) ==
    IF i > Len(goals) THEN ""
    ELSE IF goals[i].on_complete.transition_to # "" THEN goals[i].on_complete.transition_to
    ELSE NextSceneId(goals, i + 1)

\* a handler that starts the next scene and leaves the scene pointer alone
handleSceneTransitionStale(w, next_scene) == startScene(w, next_scene)

\* SceneView.handleUpdate for scene_transition, and the effect that the change
\* of current_scene makes React run again
handleSceneTransition(w, next_scene) ==
    LET before == w.store.current_scene
        w1 == [w EXCEPT !.store = setCurrentScene(@, @.current_route, @.current_chapter,
                                                  next_scene)]
        w2 == startScene(w1, next_scene)
    IN IF before # next_scene THEN sceneEffect(w2) ELSE w2

\* an end of scene whose events carry neither result nor summary
endSceneEmitBare(w, r) ==
    IF NextSceneId(w.sceneModel.blueprint.goals, 1) # ""
    THEN handleSceneTransition(
             Logged(Settle(w, r, "done"), r,
                    Entry("scene_transition", NextSceneId(w.sceneModel.blueprint.goals, 1),
                          <<w.store.current_scene>>)),
             NextSceneId(w.sceneModel.blueprint.goals, 1))
    ELSE Emit(Settle(w, r, "done"), r, Entry("scene_ended", "", <<>>))

\* an end of scene that takes the transition only when the result is success
endSceneEmitOnSuccess(w, r) ==
    IF NextSceneId(w.sceneModel.blueprint.goals, 1) # ""
       /\ w.runs[r].result = Str(<<"success">>)
    THEN handleSceneTransition(
             Logged(Settle(w, r, "done"), r,
                    Entry("scene_transition", NextSceneId(w.sceneModel.blueprint.goals, 1),
                          <<w.store.current_scene>>)),
             NextSceneId(w.sceneModel.blueprint.goals, 1))
    ELSE Emit(Settle(w, r, "done"), r,
              [Entry("scene_ended", "", <<>>)
                  EXCEPT !.result = w.runs[r].result, !.summary = w.runs[r].summary])

\* endScene after the outro; the entry of scene_transition notes in text the
\* scene pointer of the store at the moment of the emission
endSceneEmit(w, r) ==
    LET nextSceneId == NextSceneId(w.sceneModel.blueprint.goals, 1)
        result == w.runs[r].result
        summary == w.runs[r].summary
        w1 == Settle(w, r, "done")
    IN IF nextSceneId # ""
       THEN handleSceneTransition(
                Logged(w1, r, Entry("scene_transition", nextSceneId,
                                   <<w1.store.current_scene>>)), nextSceneId)
       ELSE Emit(w1, r, [Entry("scene_ended", "", <<>>)
                         EXCEPT !.result = result, !.summary = summary])

endScene(w, r) ==
    IF w.sceneModel.blueprint.outro # <<>>
    THEN typewriteText(w, r, w.sceneModel.blueprint.outro, "outro_timer")
    ELSE endSceneEmit(w, r)

IsTerminator(tok) == tok \in {".", "!", "?"}
IsSpace(tok) == tok \in {" ", "\n", "\t"}

\* text.match(/[^.!?]+[.!?]+/g): the matches from position i on
RECURSIVE MatchSentences(_, _)
MatchSentences(text, i) ==
    IF i > Len(text) THEN <<>>
    ELSE IF IsTerminator(text[i]) THEN MatchSentences(text, i + 1)
    ELSE LET stops == {j \in i..Len(text) : IsTerminator(text[j])}
         IN IF stops = {} THEN <<>>
            ELSE LET j == CHOOSE x \in stops : \A y \in stops : x <= y
                     rest == {m \in j..Len(text) : ~IsTerminator(text[m])}
                     e == IF rest = {} THEN Len(text) + 1
                          ELSE CHOOSE x \in rest : \A y \in rest : x <= y
                 IN <<SubSeq(text, i, e - 1)>> \o MatchSentences(text, e)

\* String.prototype.trim
RECURSIVE Trim(_)
Trim(text) ==
    IF text = <<>> THEN text
    ELSE IF IsSpace(text[1]) THEN Trim(Tail(text))
    ELSE IF IsSpace(text[Len(text)]) THEN Trim(SubSeq(text, 1, Len(text) - 1))
    ELSE text

\* text.match(...) || [text]
Sentences(text) ==
    LET m == MatchSentences(text, 1) IN IF m = <<>> THEN <<text>> ELSE m

\* the body of the displayDialogue loop for sentence k: emit it, ask for continue
displayChunk(w, r, k) ==
    LET speaker == w.sceneModel.activeCharacter
        w1 == Emit(w, r, Entry("dialogue_chunk", speaker, Trim(w.runs[r].sentences[k])))
    IN waitForContinue([w1 EXCEPT !.runs[r].k = k], r, "chunk")

\* what startConversation and playerInputLoop do once the dialogue is displayed
afterDisplay(w, r) ==
    IF w.runs[r].ended THEN endScene(w, r) ELSE waitForPlayerInput(w, r)

\* displayDialogue(text) up to its first await
displayDialogue(w, r, text) ==
    LET sentences == Sentences(text)
        known == \E i \in 1..Len(w.sceneModel.characters) :
                    w.sceneModel.characters[i].id = w.sceneModel.activeCharacter
        w1 == [w EXCEPT !.runs[r].sentences = sentences]
    IN IF ~known THEN Reject(w, r, "Active character not found")
       ELSE displayChunk(w1, r, 1)

\* chatTurn returns {text, ended, result, summary}: the caller goes on
afterTurn(w, r, text, ended, result, summary) ==
    LET w1 == [w EXCEPT !.runs[r].text = text, !.runs[r].ended = ended,
                        !.runs[r].result = result, !.runs[r].summary = summary,
                        !.runs[r].messages = <<>>]
    IN IF text # <<>> THEN displayDialogue(w1, r, text) ELSE afterDisplay(w1, r)

(***************************************************************************)
(* GameEngine: chatTurn from a reply of the inference service on           *)
(***************************************************************************)
RECURSIVE runToolCalls(_, _, _, _, _)

\* what the loop over the tool calls came to: "JSON.parse" or "execute" (that
\* call threw), "terminal" (a result ends the scene) or "next" (all calls ran)
Outcome(w, messages, outcome, v) ==
    [w |-> w, messages |-> messages, outcome |-> outcome, v |-> v]

\* the loop body without the test for the terminal marker: every call runs
afterExecuteAll(w, r, tcs, j, messages, x) ==
    runToolCalls([Logged(w, r, [Entry("tool_exec", tcs[j].name, <<tcs[j].id>>)
                                   EXCEPT !.result = x.v])
                     EXCEPT !.store = x.store],
                 r, tcs, j + 1, Append(messages, ToolMsg(tcs[j].id, Stringify(x.v))))

\* the loop body for call j once execute has come back with x
afterExecute(w, r, tcs, j, messages, x) ==
    LET w1 == [Logged(w, r, [Entry("tool_exec", tcs[j].name, <<tcs[j].id>>)
                                EXCEPT !.result = x.v])
                  EXCEPT !.store = x.store]
    IN IF x.threw THEN Outcome(w1, messages, "execute", Undefined)
       ELSE IF IsTerminal(x.v)
       THEN Outcome(w1, Append(messages, ToolMsg(tcs[j].id, Stringify(x.v))), "terminal", x.v)
       ELSE runToolCalls(w1, r, tcs, j + 1,
                         Append(messages, ToolMsg(tcs[j].id, Stringify(x.v))))

\* the loop body for call j once JSON.parse has come back with args
afterParse(w, r, tcs, j, messages, args) ==
    IF ~args.ok THEN Outcome(w, messages, "JSON.parse", Undefined)
    ELSE afterExecute(w, r, tcs, j, messages, Execute(tcs[j].name, args.v, w.store))

\* the for loop over aiMessage.tool_calls from call j on
runToolCalls(w, r, tcs, j, messages) ==
    IF j > Len(tcs) THEN Outcome(w, messages, "next", Undefined)
    ELSE afterParse(w, r, tcs, j, messages, JSONParse(tcs[j].arguments))

\* this.conversationHistory = messages
setHistory(w, r, messages) ==
    [Logged(w, r, Entry("set_history", "", <<>>)) EXCEPT !.conversationHistory = messages]

\* aiMessage.content || ''
ContentOr(m) == m.content

\* chatTurn after the loop over the tool calls, with a loop that has no bound
afterToolCallsLooping(w, r, i, aiMessage, t) ==
    CASE t.outcome \in {"JSON.parse", "execute"} -> Reject(t.w, r, t.outcome)
      [] t.outcome = "terminal" ->
           afterTurn(setHistory(t.w, r, t.messages), r, ContentOr(aiMessage), TRUE,
                     Get(t.v, <<"result">>), Get(t.v, <<"summary">>))
      [] OTHER -> callInference(t.w, r, t.messages, i + 1)

\* chatTurn after the loop over the tool calls of iteration i
afterToolCalls(w, r, i, aiMessage, t) ==
    CASE t.outcome \in {"JSON.parse", "execute"} -> Reject(t.w, r, t.outcome)
      [] t.outcome = "terminal" ->
           afterTurn(setHistory(t.w, r, t.messages), r,
                     ContentOr(aiMessage), TRUE,
                     Get(t.v, <<"result">>), Get(t.v, <<"summary">>))
      [] OTHER ->
           IF i + 1 < MaxIterations
           THEN callInference(t.w, r, t.messages, i + 1)
           ELSE afterTurn([setHistory(t.w, r, t.messages)
                              EXCEPT !.runs[r].exhausted = TRUE], r,
                          ContentOr(t.messages[Len(t.messages)]),
                          FALSE, Undefined, Undefined)

\* chatTurn with the reply aiMessage of iteration i
withReply(w, r, aiMessage) ==
    IF ~aiMessage.has_tools
    THEN afterTurn(setHistory(w, r, Append(w.runs[r].messages, aiMessage)),
                   r, ContentOr(aiMessage), FALSE, Undefined, Undefined)
    ELSE afterToolCalls(w, r, w.runs[r].i, aiMessage,
                        runToolCalls(w, r, aiMessage.tool_calls, 1,
                                     Append(w.runs[r].messages, aiMessage)))

\* chatTurn resumes with the reply of chatCompletion (iteration runs[r].i)
chatTurnResume(w, r, reply) ==
    IF reply.kind = "fail" THEN Reject(w, r, "chatCompletion")
    ELSE withReply(w, r, [role |-> "assistant", content |-> reply.content,
                          tool_call_id |-> "", has_tools |-> reply.has_tools,
                          tool_calls |-> reply.tool_calls])

\* a resumption that goes to the inference call without the ai_thinking event
playerInputResumeQuiet(w, r, playerInput) ==
    chatTurnBegin(w, r, playerInput,
                  generateSystemPrompt(w.sceneModel.blueprint.id,
                                       w.sceneModel.activeCharacter).v)

\* playerInputLoop resumes with the player's text
playerInputResume(w, r, playerInput) ==
    LET w1 == Emit(w, r, Entry("ai_thinking", "", <<>>))
        systemPrompt == generateSystemPrompt(w1.sceneModel.blueprint.id,
                                             w1.sceneModel.activeCharacter)
    IN IF ~systemPrompt.ok THEN Reject(w1, r, "generateSystemPrompt")
       ELSE chatTurnBegin(w1, r, playerInput, systemPrompt.v)

\* a resolution that shows no chunk after the first one
continueResumeOnce(w, r) ==
    IF w.runs[r].then = "conversation" THEN startConversation(w, r)
    ELSE afterDisplay(w, r)

\* the awaited waitForContinue() resolves
continueResume(w, r) ==
    IF w.runs[r].then = "conversation" THEN startConversation(w, r)
    ELSE IF w.runs[r].k < Len(w.runs[r].sentences)
    THEN displayChunk(w, r, w.runs[r].k + 1)
    ELSE afterDisplay(w, r)

(***************************************************************************)
(* Inputs: what the inference service and the player can send              *)
(***************************************************************************)
Q(word) == <<Quote, word, Quote>>

ToolCall(name, arguments) == [id |-> "", name |-> name, arguments |-> arguments]

\* the call of end-scene with a result tag
EndSceneWith(result) ==
    ToolCall("player2_end_scene",
             <<"{">> \o Q("result") \o <<":">> \o Q(result) \o <<",">>
             \o Q("summary") \o <<":">> \o Q("friends") \o <<"}">>)
EndSceneCall == EndSceneWith("success")
\* the result tags of the end-scene tool other than success
OtherResults == {"neutral", "fail"}
SetFlagCall ==
    ToolCall("player2_set_flag",
             <<"{">> \o Q("flag_id") \o <<":">> \o Q("met") \o <<",">>
             \o Q("value") \o <<":", "true", "}">>)
\* arguments cut off after the opening brace
TruncatedCall == ToolCall("player2_set_flag", <<"{">>)

SceneCalls == {EndSceneCall, SetFlagCall, TruncatedCall}

\* the service numbers the calls of one reply
WithIds(batch) == [j \in 1..Len(batch) |-> [batch[j] EXCEPT !.id = ToString(j)]]

Batches == UNION {{WithIds(b) : b \in [1..n -> SceneCalls]} : n \in 0..MaxBatch}

Narration == <<"Hi", ".", " ", "Bye", "!">>
Farewell == <<"Bye", ".">>

FailReply == [kind |-> "fail", content |-> <<>>, has_tools |-> FALSE, tool_calls |-> <<>>]
TextReply(t) == [kind |-> "message", content |-> t, has_tools |-> FALSE, tool_calls |-> <<>>]
ToolReply(t, b) == [kind |-> "message", content |-> t, has_tools |-> TRUE, tool_calls |-> b]

\* replies used to explore scenes and their runs
SceneReplies ==
    {FailReply, TextReply(Narration),
     ToolReply(<<>>, WithIds(<<SetFlagCall>>)),
     ToolReply(<<>>, WithIds(<<TruncatedCall>>)),
     ToolReply(<<>>, WithIds(<<EndSceneCall>>)),
     ToolReply(Farewell, WithIds(<<SetFlagCall, EndSceneCall>>))}

\* replies used to explore one turn: every batch of tool calls
TurnReplies ==
    {FailReply, TextReply(Narration), ToolReply(Farewell, WithIds(<<EndSceneCall>>))}
    \cup {ToolReply(<<>>, b) : b \in Batches}
    \cup {ToolReply(<<>>, WithIds(<<EndSceneWith(result)>>)) : result \in OtherResults}

PlayerTexts == {<<"Hello">>}

StartScenes == {"scene_1", "scene_2", "scene_3"}
IntroducedChoices == {<<>>, <<"sam">>, <<"riley", "sam">>}

(***************************************************************************)
(* State machine                                                           *)
(***************************************************************************)
NoSceneModel ==
    [present |-> FALSE,
     blueprint |-> [id |-> "", title |-> <<>>, characters |-> <<>>, goals |-> <<>>,
                    intro |-> <<>>, outro |-> <<>>],
     characters |-> <<>>, activeCharacter |-> ""]

NoExec == [n |-> 0, name |-> "", args |-> Undefined, threw |-> FALSE, v |-> Undefined,
           before |-> EmptyStore]

NoSplit == [n |-> 0, text |-> <<>>, chunks |-> <<>>]

\* App before its effect has run, player2Service as constructed without a key:
\* apiKey "" is null; authMethod "" is null; cookie and hasSave are what the
\* browser holds (a session the service accepts, the item vn_save); checks
\* are the calls of healthCheck in flight; chat is what became of the first
\* chatCompletion of the scene
NoApp ==
    [loaded |-> FALSE, screen |-> "menu", showApiKeyModal |-> FALSE,
     isValidating |-> FALSE, apiKey |-> "", authMethod |-> "", cookie |-> FALSE,
     hasSave |-> FALSE, checks |-> <<>>, started |-> 0, chat |-> "none"]

NoPrompt == [n |-> 0, sceneId |-> "", characterId |-> "", ok |-> FALSE, v |-> <<>>]

World ==
    [store |-> store, sceneModel |-> sceneModel,
     conversationHistory |-> conversationHistory,
     playerInputCallback |-> playerInputCallback, continueCallback |-> continueCallback,
     runs |-> runs, view |-> view, calls |-> calls, registry |-> registry]

\* the bounds and the replies a specification explores
SceneLimits == [runs |-> MaxRuns, chat |-> MaxSceneCalls, tools |-> MaxToolCalls,
                replies |-> SceneReplies]
TurnLimits == [runs |-> MaxTurnRuns, chat |-> MaxCalls, tools |-> MaxTurnToolCalls,
               replies |-> TurnReplies]

Bounded(w, L) ==
    /\ Len(w.runs) <= L.runs
    /\ w.calls.chat <= L.chat
    /\ w.calls.tools <= L.tools

Become(w, L) ==
    /\ Bounded(w, L)
    /\ store' = w.store
    /\ sceneModel' = w.sceneModel
    /\ conversationHistory' = w.conversationHistory
    /\ playerInputCallback' = w.playerInputCallback
    /\ continueCallback' = w.continueCallback
    /\ runs' = w.runs
    /\ view' = w.view
    /\ calls' = w.calls
    /\ registry' = w.registry
    /\ UNCHANGED <<execOut, promptOut, splitOut, app>>

Init ==
    /\ \E scene \in StartScenes, introduced \in IntroducedChoices :
          store = [EmptyStore EXCEPT !.current_route = "main", !.current_chapter = "ch1",
                                     !.current_scene = scene,
                                     !.unlocked_routes = <<"main">>,
                                     !.introduced_characters = introduced]
    /\ sceneModel = NoSceneModel
    /\ conversationHistory = <<>>
    /\ playerInputCallback = FALSE
    /\ continueCallback = FALSE
    /\ runs = <<>>
    /\ view = [mounted |-> FALSE, inputResolve |-> 0, continueResolve |-> 0,
               pendingCharacterIntro |-> "", playerMessage |-> <<>>,
               showPlayerMessage |-> FALSE]
    /\ calls = [chat |-> 0, tools |-> 0]
    /\ execOut = NoExec
    /\ registry = Registry
    /\ promptOut = NoPrompt
    /\ splitOut = NoSplit
    /\ app = NoApp

\* SceneView mounts: its effect runs for the first time
Mount(L) ==
    /\ ~view.mounted
    /\ Become(sceneEffect([World EXCEPT !.view.mounted = TRUE]), L)

\* the player dismisses the character introduction
HandleCharacterIntroContinue(L) ==
    /\ view.mounted
    /\ view.pendingCharacterIntro # ""
    /\ LET w1 == [World EXCEPT
                    !.store = markCharacterIntroduced(@, view.pendingCharacterIntro),
                    !.view.pendingCharacterIntro = ""]
           w2 == startScene(w1, w1.store.current_scene)
       IN Become(IF w1.store.introduced_characters # store.introduced_characters
                 THEN sceneEffect(w2) ELSE w2, L)

\* the player presses continue on the dialogue box or the intro overlay
HandleContinue(L) ==
    /\ view.pendingCharacterIntro = ""
    /\ view.continueResolve # 0
    /\ Become(continueResume([World EXCEPT !.view.continueResolve = 0],
                             view.continueResolve), L)

\* the player sends a text from the input box
HandlePlayerSubmit(L) ==
    /\ view.pendingCharacterIntro = ""
    /\ view.inputResolve # 0
    /\ ~view.showPlayerMessage
    /\ \E text \in PlayerTexts :
          Become([World EXCEPT !.view.playerMessage = text,
                               !.view.showPlayerMessage = TRUE], L)

\* the player presses continue on the own message
HandlePlayerContinue(L) ==
    /\ view.pendingCharacterIntro = ""
    /\ view.showPlayerMessage
    /\ view.inputResolve # 0
    /\ view.playerMessage # <<>>
    /\ Become(playerInputResume([World EXCEPT !.view.inputResolve = 0,
                                              !.view.showPlayerMessage = FALSE],
                                view.inputResolve, view.playerMessage), L)

\* the setTimeout of typewriteText fires
TimerFires(L) ==
    \E r \in 1..Len(runs) :
       \/ /\ runs[r].pc = "intro_timer"
          /\ Become(waitForContinue(World, r, "conversation"), L)
       \/ /\ runs[r].pc = "outro_timer"
          /\ Become(endSceneEmit(World, r), L)

\* a chatCompletion request settles
InferenceReply(L) ==
    \E r \in 1..Len(runs) :
       /\ runs[r].pc = "infer"
       /\ \E reply \in L.replies :
             Become(chatTurnResume([World EXCEPT !.calls.tools = @ + Len(reply.tool_calls)],
                                   r, reply), L)

Step(L) ==
    \/ Mount(L)
    \/ HandleCharacterIntroContinue(L)
    \/ HandleContinue(L)
    \/ HandlePlayerSubmit(L)
    \/ HandlePlayerContinue(L)
    \/ TimerFires(L)
    \/ InferenceReply(L)

Next == Step(SceneLimits)

Spec == Init /\ [][Next]_vars

\* one run at a time: every character is introduced, so the introduction never shows
InitTurn ==
    /\ Init
    /\ store.current_scene \in {"scene_1", "scene_2"}
    /\ store.introduced_characters = <<"riley", "sam">>

NextTurn ==
    \/ Mount(TurnLimits)
    \/ HandleContinue(TurnLimits)
    \/ HandlePlayerSubmit(TurnLimits)
    \/ HandlePlayerContinue(TurnLimits)
    \/ TimerFires(TurnLimits)
    \/ InferenceReply(TurnLimits)

SpecTurn == InitTurn /\ [][NextTurn]_vars

(***************************************************************************)
(* One run under fairness: every chatCompletion request settles with a     *)
(* response, every timer fires, every request for continue or for the      *)
(* player's text is answered                                               *)
(***************************************************************************)
MaxLiveCalls == 6

\* chatCompletion returns: a text, a tool call, a tool call with arguments cut
\* off, the end of the scene
LiveReplies ==
    {TextReply(Narration),
     ToolReply(<<>>, WithIds(<<SetFlagCall>>)),
     ToolReply(<<>>, WithIds(<<TruncatedCall>>)),
     ToolReply(Farewell, WithIds(<<EndSceneCall>>))}

LiveLimits == [runs |-> MaxTurnRuns, chat |-> MaxLiveCalls, tools |-> MaxTurnToolCalls,
               replies |-> LiveReplies]

\* scene_2 has an intro and an outro and no transition; the load of scene_3 fails
InitLive ==
    /\ Init
    /\ store.current_scene \in {"scene_2", "scene_3"}
    /\ store.introduced_characters = <<"riley", "sam">>

NextLive ==
    \/ Mount(LiveLimits)
    \/ HandleContinue(LiveLimits)
    \/ HandlePlayerSubmit(LiveLimits)
    \/ HandlePlayerContinue(LiveLimits)
    \/ TimerFires(LiveLimits)
    \/ InferenceReply(LiveLimits)

\* the event loop runs what is ready: a settled request, a timer that is due,
\* a press of continue, a text from the player
Fairness ==
    /\ WF_vars(InferenceReply(LiveLimits))
    /\ WF_vars(TimerFires(LiveLimits))
    /\ WF_vars(HandleContinue(LiveLimits))
    /\ WF_vars(HandlePlayerSubmit(LiveLimits))
    /\ WF_vars(HandlePlayerContinue(LiveLimits))

SpecLive == InitLive /\ [][NextLive]_vars /\ Fairness

(***************************************************************************)
(* GameEngine through its public methods: the handlers are registered at   *)
(* any time or never, startScene is called with any scene id               *)
(***************************************************************************)
MaxEngineRuns == 3
MaxEngineCalls == 3

\* scene_9 is the id of no scene
EngineScenes == {"scene_1", "scene_2", "scene_3", "scene_4", "scene_9"}

EngineReplies ==
    {FailReply, TextReply(Narration),
     ToolReply(Farewell, WithIds(<<SetFlagCall, EndSceneCall>>))}
    \cup {ToolReply(<<>>, WithIds(<<EndSceneWith(result)>>)) : result \in OtherResults}

EngineLimits == [runs |-> MaxEngineRuns, chat |-> MaxEngineCalls, tools |-> MaxToolCalls,
                 replies |-> EngineReplies]

InitEngine ==
    /\ Init
    /\ store.current_scene = "scene_1"
    /\ store.introduced_characters = <<"riley", "sam">>

\* engine.setPlayerInputHandler(callback)
SetPlayerInputHandler ==
    /\ ~playerInputCallback
    /\ playerInputCallback' = TRUE
    /\ UNCHANGED <<store, sceneModel, conversationHistory, continueCallback, runs, view,
                   calls, execOut, registry, promptOut, splitOut, app>>

\* engine.setContinueHandler(callback)
SetContinueHandler ==
    /\ ~continueCallback
    /\ continueCallback' = TRUE
    /\ UNCHANGED <<store, sceneModel, conversationHistory, playerInputCallback, runs, view,
                   calls, execOut, registry, promptOut, splitOut, app>>

\* engine.startScene(sceneId)
CallStartScene ==
    /\ Len(runs) < EngineLimits.runs
    /\ \E sceneId \in EngineScenes : Become(startScene(World, sceneId), EngineLimits)

NextEngine ==
    \/ SetPlayerInputHandler
    \/ SetContinueHandler
    \/ CallStartScene
    \/ HandleContinue(EngineLimits)
    \/ HandlePlayerSubmit(EngineLimits)
    \/ HandlePlayerContinue(EngineLimits)
    \/ TimerFires(EngineLimits)
    \/ InferenceReply(EngineLimits)

SpecEngine == InitEngine /\ [][NextEngine]_vars

(***************************************************************************)
(* ToolExecutor.execute on its own: every tool name with every argument bag *)
(***************************************************************************)
ToolNames ==
    {"player2_get_state", "player2_set_affinity", "player2_set_flag",
     "player2_transfer_item", "player2_update_dossier", "player2_end_scene",
     "player2_fly"}

Word(w) == Str(<<w>>)
O1(k, v) == Obj(<< <<<<k>>, v>> >>)
O2(k1, v1, k2, v2) == Obj(<< <<<<k1>>, v1>>, <<<<k2>>, v2>> >>)

\* argument bags: none, empty, of the wrong type, with fields missing or mistyped
ArgBags ==
    {Null, Obj(<<>>), Num(1), Arr(<<>>), Word("x"),
     O1("keys", Arr(<<Word("flags")>>)),
     O1("keys", Arr(<<Str(<<"flags", ".", "met">>), Word("nothing")>>)),
     O1("keys", Arr(<<Num(1)>>)),
     O1("keys", Arr(<<Word("terminal"), Word("current_scene")>>)),
     O1("keys", Arr(<<Word("__proto__"), Str(<<"flags", ".", "toString">>),
                      Str(<<"inventory", ".", "length">>)>>)),
     O1("keys", Word("flags")),
     O2("character_id", Word("riley"), "delta", Num(1)),
     O2("character_id", Word("riley"), "delta", Num(-1)),
     O2("character_id", Word("sam"), "delta", Num(3)),
     O1("character_id", Word("riley")),
     O2("flag_id", Word("met"), "value", Bool(TRUE)),
     O2("item_id", Word("key"), "receiver_id", Word("mc")),
     O2("item_id", Word("key"), "receiver_id", Word("riley")),
     O2("item_id", Word("sword"), "receiver_id", Word("mc")),
     O2("item_id", Word("sword"), "receiver_id", Word("riley")),
     O1("item_id", Word("key")),
     O2("type", Word("note"), "text", Word("clue")),
     O1("type", Word("objective")),
     O2("result", Word("success"), "summary", Word("friends"))}

ExecStores ==
    {[EmptyStore EXCEPT !.current_scene = "scene_1"],
     [EmptyStore EXCEPT !.current_scene = "scene_1",
                        !.flags = O1("met", Bool(TRUE)),
                        !.inventory = <<"key">>],
     [EmptyStore EXCEPT !.current_scene = "scene_1",
                        !.affinity = O1("riley", Num(1)),
                        !.dossier = [objectives |-> <<Word("find"), Word("clue")>>,
                                     notes |-> <<Word("clue")>>]]}

InitExec ==
    /\ store \in ExecStores
    /\ sceneModel = NoSceneModel
    /\ conversationHistory = <<>>
    /\ playerInputCallback = FALSE
    /\ continueCallback = FALSE
    /\ runs = <<>>
    /\ view = [mounted |-> FALSE, inputResolve |-> 0, continueResolve |-> 0,
               pendingCharacterIntro |-> "", playerMessage |-> <<>>,
               showPlayerMessage |-> FALSE]
    /\ calls = [chat |-> 0, tools |-> 0]
    /\ execOut = NoExec
    /\ registry = Registry
    /\ promptOut = NoPrompt
    /\ splitOut = NoSplit
    /\ app = NoApp

\* toolExecutor.execute(toolName, args) is called and comes back
Executed(toolName, args, x) ==
    /\ store' = x.store
    /\ execOut' = [n |-> execOut.n + 1, name |-> toolName, args |-> args,
                   threw |-> x.threw, v |-> x.v, before |-> store]
    /\ UNCHANGED <<sceneModel, conversationHistory, playerInputCallback,
                   continueCallback, runs, view, calls, registry, promptOut, splitOut, app>>

ExecuteTool ==
    /\ execOut.n < MaxExecSteps
    /\ \E toolName \in ToolNames, args \in ArgBags :
          Executed(toolName, args, Execute(toolName, args, store))

NextExec == ExecuteTool

SpecExec == InitExec /\ [][NextExec]_vars

(***************************************************************************)
(* PromptGenerator.generateSystemPrompt on its own: every language that    *)
(* languages.json may list, every ownership of the goals of a scene        *)
(***************************************************************************)
MaxPrompts == 1

\* the languages the generator has a name for, and one it has none for
Locales ==
    {"en_US", "fr_FR", "de_DE", "it_IT", "pt_BR", "ru_RU", "ja_JP", "ko_KR",
     "zh_CN", "zh_TW", "ar_SA", "hi_IN", "es_ES"}

\* goal.character_id: absent, or the id of a character
GoalOwners == {"", "riley", "sam"}

WithOwners(goals, owners) ==
    [i \in 1..Len(goals) |-> [goals[i] EXCEPT !.character_id = owners[i]]]

Ownerships == [1..Len(Scenes["scene_1"].goals) -> GoalOwners]

OwnedAs(reg, owners) ==
    [reg EXCEPT !.scenes["scene_1"].goals = WithOwners(@, owners)]

PromptRegistries ==
    {OwnedAs([Registry EXCEPT !.currentLanguage = language], owners) :
        language \in Locales, owners \in Ownerships}

PromptSceneIds == {"scene_1", "scene_4", "scene_9"}
PromptCharacterIds == {"riley", "sam", "mc", "nobody"}

InitPrompt ==
    /\ store = EmptyStore
    /\ sceneModel = NoSceneModel
    /\ conversationHistory = <<>>
    /\ playerInputCallback = FALSE
    /\ continueCallback = FALSE
    /\ runs = <<>>
    /\ view = [mounted |-> FALSE, inputResolve |-> 0, continueResolve |-> 0,
               pendingCharacterIntro |-> "", playerMessage |-> <<>>,
               showPlayerMessage |-> FALSE]
    /\ calls = [chat |-> 0, tools |-> 0]
    /\ execOut = NoExec
    /\ registry \in PromptRegistries
    /\ promptOut = NoPrompt
    /\ splitOut = NoSplit
    /\ app = NoApp

\* promptGenerator.generateSystemPrompt(sceneId, characterId) is called and comes back
Generated(sceneId, characterId, x) ==
    /\ promptOut' = [n |-> promptOut.n + 1, sceneId |-> sceneId,
                     characterId |-> characterId, ok |-> x.ok, v |-> x.v]
    /\ UNCHANGED <<store, sceneModel, conversationHistory, playerInputCallback,
                   continueCallback, runs, view, calls, execOut, registry, splitOut, app>>

GeneratePrompt ==
    /\ promptOut.n < MaxPrompts
    /\ \E sceneId \in PromptSceneIds, characterId \in PromptCharacterIds :
          Generated(sceneId, characterId,
                    generateSystemPromptFrom(registry, sceneId, characterId))

NextPrompt == GeneratePrompt

SpecPrompt == InitPrompt /\ [][NextPrompt]_vars

(***************************************************************************)
(* GameEngine.displayDialogue on its own: the chunks it makes of every     *)
(* text of up to MaxTextLen words, stops and blanks                        *)
(***************************************************************************)
MaxTextLen == 4
MaxSplits == 1

SplitTokens == {"Hi", ".", "?", " "}

Texts == UNION {[1..n -> SplitTokens] : n \in 1..MaxTextLen}

InitSplit ==
    /\ store = EmptyStore
    /\ sceneModel = NoSceneModel
    /\ conversationHistory = <<>>
    /\ playerInputCallback = FALSE
    /\ continueCallback = FALSE
    /\ runs = <<>>
    /\ view = [mounted |-> FALSE, inputResolve |-> 0, continueResolve |-> 0,
               pendingCharacterIntro |-> "", playerMessage |-> <<>>,
               showPlayerMessage |-> FALSE]
    /\ calls = [chat |-> 0, tools |-> 0]
    /\ execOut = NoExec
    /\ registry = Registry
    /\ promptOut = NoPrompt
    /\ splitOut = NoSplit
    /\ app = NoApp

\* the texts of the dialogue_chunk events displayDialogue(text) emits, in order
ChunkTexts(text) == [k \in 1..Len(Sentences(text)) |-> Trim(Sentences(text)[k])]

\* displayDialogue(text) has emitted its chunks
Displayed(text) ==
    /\ splitOut' = [n |-> splitOut.n + 1, text |-> text, chunks |-> ChunkTexts(text)]
    /\ UNCHANGED <<store, sceneModel, conversationHistory, playerInputCallback,
                   continueCallback, runs, view, calls, execOut, registry, promptOut, app>>

DisplayText ==
    /\ splitOut.n < MaxSplits
    /\ \E text \in Texts : Displayed(text)

NextSplit == DisplayText

SpecSplit == InitSplit /\ [][NextSplit]_vars

(***************************************************************************)
(* App and player2Service: the screens from the main menu to the scene, the *)
(* health checks that authenticate the service, and the first inference    *)
(* call of the scene                                                       *)
(***************************************************************************)
MaxChecks == 3

\* the keys a player can hold: one the service accepts, one it rejects
ApiKeys == {"good", "bad"}

\* loadInitialKey() has read the stored key; the browser holds a session the
\* service accepts or none, a saved game or none
InitApp ==
    /\ store = EmptyStore
    /\ sceneModel = NoSceneModel
    /\ conversationHistory = <<>>
    /\ playerInputCallback = FALSE
    /\ continueCallback = FALSE
    /\ runs = <<>>
    /\ view = [mounted |-> FALSE, inputResolve |-> 0, continueResolve |-> 0,
               pendingCharacterIntro |-> "", playerMessage |-> <<>>,
               showPlayerMessage |-> FALSE]
    /\ calls = [chat |-> 0, tools |-> 0]
    /\ execOut = NoExec
    /\ registry = Registry
    /\ promptOut = NoPrompt
    /\ splitOut = NoSplit
    /\ \E key \in ApiKeys \cup {""}, cookie \in BOOLEAN, hasSave \in BOOLEAN :
          app = [NoApp EXCEPT !.apiKey = key, !.cookie = cookie, !.hasSave = hasSave]

\* the store once init() has set the first scene of the starting route
Started(st) ==
    [setCurrentScene(st, "main", "ch1", "scene_1") EXCEPT !.unlocked_routes = <<"main">>]

\* the step of App or of the service; init() goes on when initialize() is done
AppBecomes(a) ==
    /\ app' = a
    /\ store' = IF a.loaded /\ ~app.loaded THEN Started(store) ELSE store
    /\ UNCHANGED <<sceneModel, conversationHistory, playerInputCallback,
                   continueCallback, runs, view, calls, execOut, registry, promptOut,
                   splitOut>>

\* isAuthenticated()
isAuthenticated(a) == a.authMethod # ""

\* what the caller of healthCheck does with its result
afterHealthCheck(a, by, isValid) ==
    CASE by = "initialize" ->
           [a EXCEPT !.loaded = TRUE,
                     !.apiKey = IF isValid THEN @ ELSE "",
                     !.authMethod = IF isValid THEN @ ELSE ""]
      [] by = "handleChapterContinue" ->
           IF isValid THEN [a EXCEPT !.hasSave = TRUE, !.screen = "scene"]
           ELSE [a EXCEPT !.showApiKeyModal = TRUE]
      [] by = "handleApiKeySubmit" ->
           IF isValid
           THEN [a EXCEPT !.showApiKeyModal = FALSE, !.screen = "scene",
                          !.isValidating = FALSE]
           ELSE [a EXCEPT !.apiKey = "", !.authMethod = "", !.isValidating = FALSE]

\* the list without its element i
Without(seq, i) == SubSeq(seq, 1, i - 1) \o SubSeq(seq, i + 1, Len(seq))

\* healthCheck() is called: the request with the cookie is sent
healthCheck(a, by) ==
    [a EXCEPT !.checks = Append(@, [by |-> by, stage |-> "cookie", key |-> ""]),
              !.started = @ + 1]

\* healthCheck() comes back with isValid
healthCheckReturns(a, i, authMethod, isValid) ==
    afterHealthCheck([a EXCEPT !.checks = Without(@, i), !.authMethod = authMethod],
                     a.checks[i].by, isValid)

\* the request with the cookie of check i is answered
cookieResponse(a, i, ok) ==
    IF ok THEN healthCheckReturns(a, i, "cookie", TRUE)
    ELSE IF a.apiKey # ""
    THEN [a EXCEPT !.checks[i].stage = "api_key", !.checks[i].key = a.apiKey]
    ELSE healthCheckReturns(a, i, "", FALSE)

\* the request with the key of check i is answered
keyResponse(a, i, ok) ==
    IF ok THEN healthCheckReturns(a, i, "api_key", TRUE)
    ELSE healthCheckReturns(a, i, "", FALSE)

\* the answers a request can get: a failure of the network at any time,
\* success when the service accepts the credential
Answers(accepted) == IF accepted THEN {TRUE, FALSE} ELSE {FALSE}

\* the effect of App runs: registry.load(), player2Service.initialize()
AppMount ==
    /\ ~app.loaded
    /\ app.started = 0
    /\ app.checks = <<>>
    /\ AppBecomes(IF app.apiKey = "" THEN [app EXCEPT !.loaded = TRUE, !.started = 1]
                  ELSE healthCheck(app, "initialize"))

\* a request of a health check is answered
HealthResponse ==
    \E i \in 1..Len(app.checks) :
       \/ /\ app.checks[i].stage = "cookie"
          /\ \E ok \in Answers(app.cookie) : AppBecomes(cookieResponse(app, i, ok))
       \/ /\ app.checks[i].stage = "api_key"
          /\ \E ok \in Answers(app.checks[i].key = "good") :
                AppBecomes(keyResponse(app, i, ok))

\* MainMenu onStart
MenuStart ==
    /\ app.loaded
    /\ app.screen = "menu"
    /\ AppBecomes([app EXCEPT !.screen = "route"])

\* MainMenu onContinue, shown when there is a saved game: App.handleContinue;
\* the scene pointer it tests was set by the effect of App
MenuContinue ==
    /\ app.loaded
    /\ app.screen = "menu"
    /\ app.hasSave
    /\ AppBecomes([app EXCEPT !.screen = IF store.current_scene = ""
                                         THEN "route" ELSE "scene"])

\* App.handleRouteSelect
RouteSelect ==
    /\ app.loaded
    /\ app.screen = "route"
    /\ AppBecomes([app EXCEPT !.hasSave = TRUE, !.screen = "character-intro"])

\* CharacterIntro onContinue
CharacterIntroContinue ==
    /\ app.loaded
    /\ app.screen = "character-intro"
    /\ AppBecomes([app EXCEPT !.screen = "chapter"])

\* ChapterIntro onContinue (a key pressed anywhere in the window):
\* App.handleChapterContinue
ChapterContinue ==
    /\ app.loaded
    /\ app.screen = "chapter"
    /\ app.started < MaxChecks
    /\ AppBecomes(healthCheck(app, "handleChapterContinue"))

\* ApiKeyModal handleSubmit: App.handleApiKeySubmit(key)
ApiKeySubmit ==
    /\ app.showApiKeyModal
    /\ ~app.isValidating
    /\ app.started < MaxChecks
    /\ \E key \in ApiKeys :
          AppBecomes(healthCheck([app EXCEPT !.apiKey = key, !.isValidating = TRUE],
                                 "handleApiKeySubmit"))

\* SceneView is shown and the engine makes its first call of chatCompletion,
\* which throws 'Not authenticated' unless isAuthenticated()
FirstChatCompletion ==
    /\ app.loaded
    /\ app.screen = "scene"
    /\ app.chat = "none"
    /\ AppBecomes([app EXCEPT !.chat = IF isAuthenticated(app) THEN "sent"
                                      ELSE "Not authenticated"])

NextApp ==
    \/ AppMount
    \/ HealthResponse
    \/ MenuStart
    \/ MenuContinue
    \/ RouteSelect
    \/ CharacterIntroContinue
    \/ ChapterContinue
    \/ ApiKeySubmit
    \/ FirstChatCompletion

SpecApp == InitApp /\ [][NextApp]_vars

(***************************************************************************)
(* Properties                                                              *)
(***************************************************************************)
Run(r) == runs[r]
RunIds == 1..Len(runs)

\* the value carries the terminal marker
Marked(v) == v.t = "object" /\ HasKey(v, <<"terminal">>) /\ Get(v, <<"terminal">>) = Bool(TRUE)

\* entry k of run r is the execution of a tool whose result is marked terminal
TerminalAt(r, k) == Run(r).log[k].type = "tool_exec" /\ Marked(Run(r).log[k].result)

\* C1: once the result of a tool call is marked terminal, the run executes no
\* later tool call and makes no further inference call, and the turn comes
\* back ended with the result and the summary of that tool result (which the
\* scene_ended event then carries).
TerminalStopsTheTurn ==
    \A r \in RunIds : \A k \in 1..Len(Run(r).log) :
       TerminalAt(r, k) =>
          /\ \A m \in (k + 1)..Len(Run(r).log) :
                /\ Run(r).log[m].type \notin {"tool_exec", "infer_call"}
                /\ Run(r).log[m].type = "scene_ended" =>
                      /\ Run(r).log[m].result = Get(Run(r).log[k].result, <<"result">>)
                      /\ Run(r).log[m].summary = Get(Run(r).log[k].result, <<"summary">>)
          /\ Run(r).pc # "failed"
          /\ Run(r).pc # "done" =>
                /\ Run(r).ended
                /\ Run(r).result = Get(Run(r).log[k].result, <<"result">>)
                /\ Run(r).summary = Get(Run(r).log[k].result, <<"summary">>)

\* end-scene was the second of three calls of a reply and the turn has ended
TerminalSecondOfThree ==
    \E r \in RunIds : \E k \in 1..Len(Run(r).log) :
       /\ TerminalAt(r, k)
       /\ Run(r).log[k].text = <<"2">>
       /\ Run(r).ended
       /\ Run(r).result = Word("success")
       /\ \E m \in 1..Len(conversationHistory) :
             /\ Len(conversationHistory[m].tool_calls) = 3
             /\ conversationHistory[m].tool_calls[3].name = "player2_set_flag"

\* C2: execute never throws: it comes back with an object, and whatever the
\* switch throws, and every unknown tool name, comes back as an object of
\* exactly the members success = false and error, a string.
ExecuteNeverThrows ==
    execOut.n > 0 =>
       /\ ~execOut.threw
       /\ execOut.v.t = "object"
       /\ (\/ ExecuteSwitch(execOut.name, execOut.args, execOut.before).threw
           \/ execOut.name = "player2_fly") =>
             /\ Len(execOut.v.o) = 2
             /\ Get(execOut.v, <<"success">>) = Bool(FALSE)
             /\ Get(execOut.v, <<"error">>).t = "string"

\* end-scene was called without an argument bag, and a failure came back
ExecuteCaughtNullArgs ==
    /\ execOut.n > 0
    /\ execOut.name = "player2_end_scene"
    /\ execOut.args = Null
    /\ ~execOut.threw
    /\ Get(execOut.v, <<"success">>) = Bool(FALSE)

\* C3: no run is rejected with an error thrown while a tool call is handled
\* (by the parsing of its arguments or by its execution).
ToolCallNeverAborts ==
    \A r \in RunIds : \A k \in 1..Len(Run(r).log) :
       Run(r).log[k].type = "rejected" =>
          Run(r).log[k].scene \notin {"JSON.parse", "execute"}

\* the runs that wait for the player: a continue or a player input requested
Suspended == {r \in RunIds : Run(r).pc \in {"continue", "input"}}

\* C4: at most one request for continue or for player input is outstanding.
OneSuspension == Cardinality(Suspended) <= 1

\* the runs whose startScene invocation has neither resolved nor been rejected
InProgress ==
    {r \in RunIds : Run(r).pc \in {"infer", "continue", "input", "intro_timer", "outro_timer"}}

\* C5: at most one startScene invocation is in progress.
OneRunActive == Cardinality(InProgress) <= 1

\* what a run does that others can see: requests, events, tool executions and
\* writes of the transcript (not its own suspension or rejection)
IsAct(e) == e.type \notin {"request_continue", "request_input", "rejected"}
ActsOf(log) == SelectSeq(log, IsAct)

\* C6: a run that is not the latest startScene invocation does nothing more:
\* no inference call, no event, no tool execution, no write of the transcript.
OldRunDiscarded ==
    [][\A r \in RunIds : r < Len(runs) => ActsOf(runs'[r].log) = ActsOf(runs[r].log)]_vars

\* the transcript a scene starts with
FreshTranscript(sceneId) ==
    <<Msg("system",
          generateSystemPrompt(sceneId, FindFirstNPC(Scenes[sceneId].characters, 1).id).v),
      Msg("user", EnteredScene)>>

\* C7: the transcript sent with the first inference call of a run is the
\* system prompt of its scene followed by the scene-entry user message.
FirstCallOfSceneClean ==
    \A r \in RunIds :
       (Run(r).pc = "infer" /\ Run(r).turn = 1 /\ Run(r).i = 0) =>
          Run(r).messages = FreshTranscript(Run(r).scene)

\* C8: a non-empty transcript starts with the system prompt of the current
\* scene and its active character, and holds exactly one system message.
TranscriptStartsWithSystemPrompt ==
    conversationHistory # <<>> =>
       /\ conversationHistory[1] =
             Msg("system", generateSystemPrompt(sceneModel.blueprint.id,
                                                sceneModel.activeCharacter).v)
       /\ Cardinality({m \in 1..Len(conversationHistory) :
                          conversationHistory[m].role = "system"}) = 1

\* the positions of the participants of the scene model whose role is not player
NonPlayers ==
    {i \in 1..Len(sceneModel.blueprint.characters) :
        Characters[sceneModel.blueprint.characters[i]].role # "player"}

BoundedModelLoop ==
    \A r \in RunIds :
       /\ Run(r).turnCalls <= 5
       /\ Run(r).exhausted =>
             /\ Run(r).turnCalls = 5
             /\ ~Run(r).ended
             /\ Run(r).pc \in {"continue", "input"}

\* after 5 replies with tool calls the run waits for the player's input
ExhaustedAwaitsInput ==
    \E r \in RunIds :
       /\ Run(r).exhausted
       /\ Run(r).pc = "input"
       /\ conversationHistory[Len(conversationHistory)].role = "tool"
       /\ Cardinality({m \in 1..Len(conversationHistory) :
                          conversationHistory[m].role = "assistant"}) = 5

\* the position of the last assistant message of a transcript, 0 without one
LastAssistant(messages) ==
    IF \A m \in 1..Len(messages) : messages[m].role # "assistant" THEN 0
    ELSE CHOOSE a \in 1..Len(messages) :
            /\ messages[a].role = "assistant"
            /\ \A m \in (a + 1)..Len(messages) : messages[m].role # "assistant"

\* the transcript ends with the assistant message at a and one tool message
\* for each of its calls, in their order and with their ids
AnsweredInOrder(messages, a) ==
    /\ a > 0
    /\ messages[a].has_tools
    /\ Len(messages) = a + Len(messages[a].tool_calls)
    /\ \A j \in 1..Len(messages[a].tool_calls) :
          /\ messages[a + j].role = "tool"
          /\ messages[a + j].tool_call_id = messages[a].tool_calls[j].id

\* the log ends with an inference call, the executions of the calls tcs in
\* their order, and the next inference call
ExecutedInOrder(log, tcs) ==
    /\ Len(log) >= Len(tcs) + 2
    /\ log[Len(log)].type = "infer_call"
    /\ log[Len(log) - Len(tcs) - 1].type = "infer_call"
    /\ \A j \in 1..Len(tcs) :
          /\ log[Len(log) - Len(tcs) - 1 + j].type = "tool_exec"
          /\ log[Len(log) - Len(tcs) - 1 + j].scene = tcs[j].name
          /\ log[Len(log) - Len(tcs) - 1 + j].text = <<tcs[j].id>>

\* C11: when a run makes the next inference call of a turn after a reply with
\* tool calls, the tools of that reply were executed in the order of the
\* reply, and the transcript of the call ends with the assistant message
\* followed by exactly one tool message per call, in the same order, each
\* with the id of its call.
ToolsAnsweredInOrder ==
    \A r \in RunIds :
       (Run(r).pc = "infer" /\ Run(r).i >= 1) =>
          /\ AnsweredInOrder(Run(r).messages, LastAssistant(Run(r).messages))
          /\ ExecutedInOrder(Run(r).log,
                Run(r).messages[LastAssistant(Run(r).messages)].tool_calls)

\* a reply asked for three calls and the next inference call is out
ThreeCallsAnswered ==
    \E r \in RunIds :
       /\ Run(r).pc = "infer"
       /\ Run(r).i >= 1
       /\ Len(Run(r).messages[LastAssistant(Run(r).messages)].tool_calls) = 3
       /\ Run(r).messages[Len(Run(r).messages)].tool_call_id = "3"

\* the run was waiting for the continue of its chunk k and the view held its resolver
ChunkAcknowledged(old, resolver, r, k) ==
    /\ old.pc = "continue"
    /\ old.then = "chunk"
    /\ old.k = k
    /\ resolver = r

\* what run r (old before the step, new after it) put on its log in the step:
\* a chunk is the next sentence of the text, and it follows the acknowledgement
\* of the chunk before it; the request for input follows that of the last chunk
ChunkStep(old, new, resolver, r) ==
    \A p \in (Len(old.log) + 1)..Len(new.log) :
       /\ new.log[p].type = "dialogue_chunk" =>
             /\ new.sentences = Sentences(new.text)
             /\ new.k \in 1..Len(new.sentences)
             /\ new.log[p].text = Trim(new.sentences[new.k])
             /\ new.k = 1 => old.pc = "infer"
             /\ new.k > 1 => /\ ChunkAcknowledged(old, resolver, r, new.k - 1)
                             /\ old.sentences = new.sentences
       /\ (new.log[p].type = "request_input" /\ new.text # <<>>) =>
             ChunkAcknowledged(old, resolver, r, Len(old.sentences))

\* C12: the chunks of a reply are emitted in the order of the sentences of its
\* text, one per step; chunk k+1 is emitted only in the step that acknowledges
\* the continue requested for chunk k, and the request for the player's input
\* only in the step that acknowledges the continue of the last chunk.
ChunksInOrderAndGated ==
    [][\A r \in RunIds : ChunkStep(runs[r], runs'[r], view.continueResolve, r)]_vars

\* both sentences of the narration were shown and the run asks for input
BothChunksShown ==
    \E r \in RunIds : \E p \in 1..Len(Run(r).log) :
       /\ Run(r).pc = "input"
       /\ Run(r).text = Narration
       /\ Run(r).k = 2
       /\ p + 4 = Len(Run(r).log)
       /\ Run(r).log[p].type = "dialogue_chunk" /\ Run(r).log[p].text = <<"Hi", ".">>
       /\ Run(r).log[p + 1].type = "request_continue"
       /\ Run(r).log[p + 2].type = "dialogue_chunk" /\ Run(r).log[p + 2].text = <<"Bye", "!">>
       /\ Run(r).log[p + 3].type = "request_continue"
       /\ Run(r).log[p + 4].type = "request_input"

\* the position of the last user message of a transcript, 0 without one
LastUser(messages) ==
    IF \A m \in 1..Len(messages) : messages[m].role # "user" THEN 0
    ELSE CHOOSE u \in 1..Len(messages) :
            /\ messages[u].role = "user"
            /\ \A m \in (u + 1)..Len(messages) : messages[m].role # "user"

\* run r (old before the step, new after it) was given the player's text: it
\* emitted ai_thinking, then made the inference call with that text
PlayerTurnStep(old, new, text) ==
    (old.pc = "input" /\ new # old) =>
       /\ Len(new.log) = Len(old.log) + 2
       /\ SubSeq(new.log, 1, Len(old.log)) = old.log
       /\ new.log[Len(old.log) + 1].type = "ai_thinking"
       /\ new.log[Len(old.log) + 2].type = "infer_call"
       /\ new.pc = "infer"
       /\ new.i = 0
       /\ LastUser(new.messages) > 0
       /\ new.messages[LastUser(new.messages)] = Msg("user", text)

\* C13: in the step in which a run waiting for the player's input is given
\* the text, the run emits ai_thinking and only then issues the inference
\* call, and the transcript of that call has the player's text as its last
\* user message.
ThinkingBeforeInference ==
    [][\A r \in RunIds : PlayerTurnStep(runs[r], runs'[r], view.playerMessage)]_vars

\* the inference call of a player turn is out with the player's text
PlayerTextSent ==
    \E r \in RunIds :
       /\ Run(r).pc = "infer"
       /\ Run(r).turn = 2
       /\ Run(r).i = 0
       /\ Run(r).messages[Len(Run(r).messages)] = Msg("user", <<"Hello">>)
       /\ Run(r).log[Len(Run(r).log) - 1].type = "ai_thinking"

TransitionStep(oldLog, newLog, pointer, pointerAfter, started) ==
    \A p \in (Len(oldLog) + 1)..Len(newLog) :
       newLog[p].type = "scene_transition" =>
          /\ newLog[p].text = <<pointer>>
          /\ pointerAfter = newLog[p].scene
          /\ started # <<>>
          /\ \A q \in 1..Len(started) : started[q].scene = newLog[p].scene

NoTransitionGoal(goals) ==
    \A i \in 1..Len(goals) : goals[i].on_complete.transition_to = ""

\* the position of the last execution with a terminal result in a log
LastTerminal(log) ==
    CHOOSE k \in 1..Len(log) :
       /\ log[k].type = "tool_exec" /\ Marked(log[k].result)
       /\ \A m \in (k + 1)..Len(log) : ~(log[m].type = "tool_exec" /\ Marked(log[m].result))

\* the entry is scene_ended with the result and the summary of the terminal call
EndedWith(log, e) ==
    /\ e.type = "scene_ended"
    /\ \E k \in 1..Len(log) : log[k].type = "tool_exec" /\ Marked(log[k].result)
    /\ e.result = Get(log[LastTerminal(log)].result, <<"result">>)
    /\ e.summary = Get(log[LastTerminal(log)].result, <<"summary">>)

\* run r (old before the step, new after it) when the goals of the scene model
\* carry no transition_to: its end is the scene_ended event, and nothing more
SceneEndStep(old, new, goals) ==
    /\ (old.pc # "done" /\ new.pc = "done" /\ NoTransitionGoal(goals)) =>
          /\ EndedWith(new.log, new.log[Len(new.log)])
          /\ \A p \in (Len(old.log) + 1)..(Len(new.log) - 1) :
                new.log[p].type \in {"tool_exec", "set_history"}
    /\ (old.pc = "done" /\ old.log[Len(old.log)].type = "scene_ended") => new = old

\* C15: a run that ends while the goals of the scene carry no transition_to
\* emits scene_ended with the result and the summary of the terminal tool
\* call; the step leaves the scene pointer as it was, starts no scene, makes
\* no inference call and requests no suspension, and the run does nothing
\* afterwards.
SceneEndedIsFinal ==
    [][\A r \in RunIds :
          /\ SceneEndStep(runs[r], runs'[r], sceneModel.blueprint.goals)
          /\ (runs[r].pc # "done" /\ runs'[r].pc = "done"
                 /\ NoTransitionGoal(sceneModel.blueprint.goals)) =>
                /\ store'.current_scene = store.current_scene
                /\ Len(runs') = Len(runs)
                /\ calls'.chat = calls.chat
                /\ view'.continueResolve = view.continueResolve
                /\ view'.inputResolve = view.inputResolve]_vars

\* the harbour scene ended after its outro: scene_ended carries the result
SceneEndedAtHarbour ==
    \E r \in RunIds :
       /\ Run(r).scene = "scene_2"
       /\ Run(r).pc = "done"
       /\ Run(r).log[Len(Run(r).log)].type = "scene_ended"
       /\ Run(r).log[Len(Run(r).log)].result = Word("success")
       /\ Run(r).log[Len(Run(r).log)].summary = Word("friends")
       /\ Run(r).log[Len(Run(r).log) - 1].type = "typewriter"
       /\ store.current_scene = "scene_2"

\* the positions of the goals that carry transition_to
TransitionGoals(goals) ==
    {i \in 1..Len(goals) : goals[i].on_complete.transition_to # ""}

\* goal i is the first of the list, in its order, that carries transition_to
FirstTransitionGoal(goals, i) ==
    i \in TransitionGoals(goals) /\ \A j \in TransitionGoals(goals) : i <= j

\* every scene_transition the step put on the log names the transition_to of
\* the first goal that carries one
NamesFirstTransition(oldLog, newLog, goals) ==
    \A p \in (Len(oldLog) + 1)..Len(newLog) :
       newLog[p].type = "scene_transition" =>
          \E i \in 1..Len(goals) :
             /\ FirstTransitionGoal(goals, i)
             /\ newLog[p].scene = goals[i].on_complete.transition_to

\* C16: the scene a scene_transition event names is the transition_to of the
\* first goal, in the order of the goal list of the scene model, that carries
\* one; a later goal's transition_to is not used.
TransitionOfFirstGoal ==
    [][\A r \in RunIds :
          NamesFirstTransition(runs[r].log, runs'[r].log, sceneModel.blueprint.goals)]_vars

\* the arrival scene, whose second and third goal carry different
\* transition_to, ended with the transition of the second
SecondGoalChosen ==
    \E r \in RunIds : \E k \in 1..Len(Run(r).log) :
       /\ Run(r).log[k].type = "scene_transition"
       /\ TransitionGoals(Scenes[Run(r).scene].goals) = {2, 3}
       /\ Run(r).log[k].scene = Scenes[Run(r).scene].goals[2].on_complete.transition_to
       /\ Run(r).log[k].scene # Scenes[Run(r).scene].goals[3].on_complete.transition_to

\* the objective text of a goal: its description, after the name of the
\* owning character if it has an owner
ObjectiveOf(goal) ==
    Str(IF goal.character_id # ""
        THEN Characters[goal.character_id].name \o <<": ">> \o goal.description
        ELSE goal.description)

ObjectivesOf(goals) == [i \in 1..Len(goals) |-> ObjectiveOf(goals[i])]

\* a sequence without the elements that repeat an earlier one
RECURSIVE WithoutRepeats(_)
WithoutRepeats(seq) ==
    IF seq = <<>> THEN <<>>
    ELSE IF Includes(WithoutRepeats(SubSeq(seq, 1, Len(seq) - 1)), seq[Len(seq)])
    THEN WithoutRepeats(SubSeq(seq, 1, Len(seq) - 1))
    ELSE Append(WithoutRepeats(SubSeq(seq, 1, Len(seq) - 1)), seq[Len(seq)])

\* the step made new invocations of startScene and the last of them went through
StartedScene(old, new) == Len(new) > Len(old) /\ new[Len(new)].pc # "failed"

\* C17 as stated: after a successful startScene the objective list is the
\* sequence of the objective texts of the goals of the scene, one entry per goal.
ObjectivesOnePerGoal ==
    [][StartedScene(runs, runs') =>
          store'.dossier.objectives = ObjectivesOf(Scenes[runs'[Len(runs')].scene].goals)]_vars

\* C17 (amended): after a successful startScene, whatever the objectives were
\* before, the objective list is the sequence of the objective texts of the
\* goals of the scene in their order, a text that repeats that of an earlier
\* goal of the scene being left out.
ObjectivesOfSceneGoals ==
    [][StartedScene(runs, runs') =>
          store'.dossier.objectives =
             WithoutRepeats(ObjectivesOf(Scenes[runs'[Len(runs')].scene].goals))]_vars

\* the arrival scene was started a second time: its three goals, two of them
\* with the same text, left two objectives
TwoObjectivesForThreeGoals ==
    /\ Len(runs) >= 2
    /\ Run(1).scene = "scene_1" /\ Run(1).pc # "failed"
    /\ Run(Len(runs)).scene = "scene_1" /\ Run(Len(runs)).pc # "failed"
    /\ Len(Scenes["scene_1"].goals) = 3
    /\ store.dossier.objectives = <<Str(<<"arrive">>), Str(<<"Riley", ": ", "befriend">>)>>

\* the step is one call of startScene that was rejected for a content error:
\* an unknown scene, an unknown character, a scene without a non-player
FailedStart(old, new) ==
    /\ Len(new) = Len(old) + 1
    /\ SubSeq(new, 1, Len(old)) = old
    /\ new[Len(new)].pc = "failed"
    /\ new[Len(new)].log[1].type = "rejected"
    /\ new[Len(new)].log[1].scene \in {"getScene", "getCharacter", "No NPC found in scene"}

\* C18: a call of startScene that fails with a content error leaves the scene
\* model, the transcript and the dossier objectives as they were before it.
FailedStartLeavesState ==
    [][FailedStart(runs, runs') =>
          /\ sceneModel' = sceneModel
          /\ conversationHistory' = conversationHistory
          /\ store'.dossier.objectives = store.dossier.objectives]_vars

\* the scene has participants and none of them is a non-player
NoNonPlayer(sceneId) ==
    /\ sceneId \in DOMAIN Scenes
    /\ Scenes[sceneId].characters # <<>>
    /\ \A i \in 1..Len(Scenes[sceneId].characters) :
          /\ Scenes[sceneId].characters[i] \in DOMAIN Characters
          /\ Characters[Scenes[sceneId].characters[i]].role = "player"

\* the step is one call of startScene, and nothing else
StartCall(old, new) == Len(new) = Len(old) + 1 /\ SubSeq(new, 1, Len(old)) = old

\* C19: a call of startScene for a scene without a non-player participant
\* is rejected at once with the error 'No NPC found in scene'; the scene
\* model (and so the active character) and the store (and so the objectives)
\* stay as they were, no event reaches the view and no inference call is made.
NoNPCFailsFast ==
    [][(StartCall(runs, runs') /\ NoNonPlayer(runs'[Len(runs')].scene)) =>
          /\ runs'[Len(runs')].pc = "failed"
          /\ runs'[Len(runs')].log = <<Entry("rejected", "No NPC found in scene", <<>>)>>
          /\ sceneModel' = sceneModel
          /\ store' = store
          /\ view' = view
          /\ calls' = calls]_vars

\* a scene with Riley was loaded and has made an inference call; the call for
\* the scene with the player alone was rejected and Riley is still active
LonelySceneRejected ==
    \E r \in RunIds :
       /\ Run(r).scene = "scene_3"
       /\ Run(r).pc = "failed"
       /\ Run(r).log = <<Entry("rejected", "No NPC found in scene", <<>>)>>
       /\ sceneModel.present
       /\ sceneModel.activeCharacter = "riley"
       /\ calls.chat = 1

\* the types of the entries the step put on the log
NewTypes(old, new) == {new.log[p].type : p \in (Len(old.log) + 1)..Len(new.log)}

\* in the step the run comes to waitForContinue: the timer of the intro has
\* fired, a chunk of a reply is shown, or the chunk before it was acknowledged
AtContinue(old, new) ==
    /\ new # old
    /\ \/ old.pc = "intro_timer"
       \/ old.pc = "infer" /\ "dialogue_chunk" \in NewTypes(old, new)
       \/ old.pc = "continue" /\ old.then = "chunk" /\ old.k < Len(old.sentences)

\* in the step the run comes to waitForPlayerInput: the last chunk of a turn
\* that goes on was acknowledged, or such a turn came back without a text
AtInput(old, new) ==
    /\ new # old
    /\ \/ old.pc = "continue" /\ old.then = "chunk" /\ old.k = Len(old.sentences)
                              /\ ~old.ended
       \/ /\ old.pc = "infer"
          /\ "set_history" \in NewTypes(old, new)
          /\ NewTypes(old, new) \subseteq {"tool_exec", "set_history", "request_input",
                                          "rejected"}

\* the run either waits with its request handed to the handler, or the
\* invocation of startScene is rejected with the error of the missing handler
SuspendedOrRejected(new, registered, pc, request, cause) ==
    IF registered
    THEN new.pc = pc /\ new.log[Len(new.log)].type = request
    ELSE new.pc = "failed" /\ new.log[Len(new.log)] = Entry("rejected", cause, <<>>)

\* no run waits for a handler that is not registered, and the rejection for a
\* missing handler is the last thing an invocation does
NoSilentWait(run, continueRegistered, inputRegistered) ==
    /\ run.pc = "continue" => continueRegistered
    /\ run.pc = "input" => inputRegistered
    /\ \A k \in 1..Len(run.log) :
          (run.log[k].type = "rejected"
             /\ run.log[k].scene \in {"waitForContinue", "waitForPlayerInput"}) =>
                k = Len(run.log) /\ run.pc = "failed"

\* C20: a run that comes to a suspension point whose handler is not
\* registered is rejected, as the invocation of startScene, with the error of
\* the missing handler and does nothing afterwards; it neither goes on as if
\* acknowledged nor waits; with the handler registered it waits with its request.
MissingHandlerRejects ==
    [][/\ \A r \in 1..Len(runs') :
             NoSilentWait(runs'[r], continueCallback', playerInputCallback')
       /\ \A r \in RunIds :
             /\ AtContinue(runs[r], runs'[r]) =>
                   SuspendedOrRejected(runs'[r], continueCallback, "continue",
                                       "request_continue", "waitForContinue")
             /\ AtInput(runs[r], runs'[r]) =>
                   SuspendedOrRejected(runs'[r], playerInputCallback, "input",
                                       "request_input", "waitForPlayerInput")]_vars

\* no continue handler is registered: the first chunk of the reply was
\* emitted and the invocation was rejected at the continue
RejectedAtContinue ==
    /\ ~continueCallback
    /\ \E r \in RunIds :
          /\ Run(r).pc = "failed"
          /\ Len(Run(r).log) >= 2
          /\ Run(r).log[Len(Run(r).log)] = Entry("rejected", "waitForContinue", <<>>)
          /\ Run(r).log[Len(Run(r).log) - 1].type = "dialogue_chunk"

\* an inference call of a player turn of run r failed: the rejection is entry
\* k of its log
InferenceFailedAt(r, k) ==
    /\ Run(r).log[k].type = "rejected"
    /\ Run(r).log[k].scene = "chatCompletion"
    /\ Run(r).turn >= 2

\* C21: a run whose inference call failed in a player turn made no further inference call by
\* itself, and it takes the player's next text: it waits for the input with
\* its resolver at the view, or it has gone on from there.
RetryAfterInferenceFailure ==
    \A r \in RunIds : \A k \in 1..Len(Run(r).log) :
       InferenceFailedAt(r, k) =>
          /\ k < Len(Run(r).log) => Run(r).log[k + 1].type = "request_input"
          /\ k = Len(Run(r).log) => Run(r).pc = "input" /\ view.inputResolve = r

\* the kinds and the texts of the dossier insertions that are tried
DossierKinds == {Str(<<"objective">>), Str(<<"note">>)}
DossierTexts == {Word("clue"), Word("find"), Word("path"), Str(<<>>)}

\* the number of entries of a list that equal x
Occurrences(seq, x) == Cardinality({i \in 1..Len(seq) : seq[i] = x})

\* list `after` is list `before`, or `before` with x appended
SameOrAppended(before, after, x) == after = before \/ after = Append(before, x)

\* once is st after one insertion of the text: a second insertion changes
\* nothing, the list holds the text once, and what was there is where it was
InsertedOnce(st, once, type, text, key, other) ==
    /\ updateDossier(once, type, text) = once
    /\ Occurrences(once.dossier[key], text) = 1
    /\ SameOrAppended(st.dossier[key], once.dossier[key], text)
    /\ once.dossier[other] = st.dossier[other]

\* C22: for the store as it is, every kind and every text: inserting the text
\* twice leaves the list that inserting it once leaves, the list holds the
\* text exactly once, and the entries already present keep their order.
DossierInsertionIdempotent ==
    \A type \in DossierKinds, text \in DossierTexts :
       InsertedOnce(store, updateDossier(store, type, text), type, text,
                    IF type = Str(<<"objective">>) THEN "objectives" ELSE "notes",
                    IF type = Str(<<"objective">>) THEN "notes" ELSE "objectives")

\* the tool inserted the note 'clue' a second time and the store stayed as it was
NoteInsertedTwice ==
    /\ execOut.n = 2
    /\ execOut.name = "player2_update_dossier"
    /\ execOut.args = O2("type", Word("note"), "text", Word("clue"))
    /\ execOut.before = store
    /\ Occurrences(store.dossier.notes, Word("clue")) = 1
    /\ store.dossier.objectives = <<>>

MaxDeltas == 3

\* the deltas tried and their sequences of up to MaxDeltas
Deltas == {-1, 0, 3}
DeltaSeqs == UNION {[1..n -> Deltas] : n \in 0..MaxDeltas}

RECURSIVE SumOf(_)
SumOf(seq) == IF seq = <<>> THEN 0 ELSE seq[1] + SumOf(Tail(seq))

\* the store after the tool call adjust-affinity(c, d), a read-state of that
\* score and an adjustment of another character
AdjustedAndRead(st, c, d, other) ==
    Execute("player2_set_affinity", O2("character_id", Word(other), "delta", Num(d + 1)),
            Execute("player2_get_state", O1("keys", Arr(<<Str(<<"affinity", ".", c>>)>>)),
                    Execute("player2_set_affinity",
                            O2("character_id", Word(c), "delta", Num(d)), st).store).store
           ).store

\* the store after the deltas of seq, in their order, each with what follows it
RECURSIVE AdjustedBy(_, _, _, _)
AdjustedBy(st, c, seq, other) ==
    IF seq = <<>> THEN st
    ELSE AdjustedBy(AdjustedAndRead(st, c, seq[1], other), c, Tail(seq), other)

\* the score of c is a number, or unset
ScoreKnown(st, c) == ~HasKey(st.affinity, <<c>>) \/ Get(st.affinity, <<c>>).t = "number"

\* the score of c, 0 when unset
ScoreOf(st, c) == IF HasKey(st.affinity, <<c>>) THEN Get(st.affinity, <<c>>).n ELSE 0

\* C23: from the store as it is, with the score of a character a number or
\* unset: after every sequence of up to MaxDeltas integer deltas for that
\* character, in every order, with a read-state and an adjustment of
\* another character after each, the stored score is the initial score
\* (0 when unset) plus the sum of the deltas.
AffinityIsSumOfDeltas ==
    \A seq \in DeltaSeqs :
       ScoreKnown(store, "riley") =>
          Get(AdjustedBy(store, "riley", seq, "sam").affinity, <<"riley">>) =
             IF seq = <<>> /\ ~HasKey(store.affinity, <<"riley">>) THEN Undefined
             ELSE Num(ScoreOf(store, "riley") + SumOf(seq))

\* the tool added 1 and then -1 to the unset score of Riley: 0 is stored
AffinityBackAtZero ==
    /\ execOut.n = 2
    /\ execOut.name = "player2_set_affinity"
    /\ execOut.args = O2("character_id", Word("riley"), "delta", Num(-1))
    /\ Get(execOut.before.affinity, <<"riley">>) = Num(1)
    /\ Get(store.affinity, <<"riley">>) = Num(0)
    /\ ScoreOf(AdjustedBy(store, "riley", <<3, -1>>, "sam"), "riley") = 2

\* the last call was a transfer-item whose receiver is not the player character
TransferToOther ==
    /\ execOut.n > 0
    /\ execOut.name = "player2_transfer_item"
    /\ CanRead(execOut.args)
    /\ Arg(execOut.args, "receiver_id") # Str(<<Game.player_character_id>>)

InventoryKept == store.inventory = execOut.before.inventory

Unsupported == Failure(<<"Only transfers to player are supported">>)

\* C24 (as stated): a transfer-item whose receiver is not the player character
\* leaves the inventory alone and returns the unsupported-operation error,
\* whatever the item id
TransferToOtherUnsupported ==
    TransferToOther =>
        /\ InventoryKept
        /\ ~execOut.threw
        /\ execOut.v = Unsupported

\* the registry has an item of the id asked for
ItemKnown == MapHas(Items, Arg(execOut.args, "item_id"))

ItemNotFound ==
    Failure(<<"Item ">> \o KeyOf(Arg(execOut.args, "item_id")) \o <<" not found">>)

\* C24 (amended): a transfer-item whose receiver is not the player character
\* leaves the inventory alone and returns success false with an error: the
\* unsupported-operation error when the registry has the item, the
\* item-not-found error when it has not
TransferToOtherRejected ==
    TransferToOther =>
        /\ InventoryKept
        /\ ~execOut.threw
        /\ execOut.v = (IF ItemKnown THEN Unsupported ELSE ItemNotFound)

\* the key was to go to Riley from a store that has it: unsupported
KnownItemToOther ==
    /\ TransferToOther
    /\ ItemKnown
    /\ execOut.before.inventory # <<>>
    /\ execOut.v = Unsupported

\* the last call was of a tool other than end-scene
OtherToolExecuted ==
    /\ execOut.n > 0
    /\ execOut.name # "player2_end_scene"

\* C25: the result execute returns for a tool other than end-scene, whatever
\* the arguments (read-state of any paths included), is never one the engine
\* treats as terminal
OnlyEndSceneIsTerminal ==
    OtherToolExecuted => ~execOut.threw /\ ~IsTerminal(execOut.v)

\* read-state was asked for the path "terminal": the key is there, undefined
ReadStateOfTerminalPath ==
    /\ OtherToolExecuted
    /\ execOut.name = "player2_get_state"
    /\ execOut.v.t = "object"
    /\ HasKey(execOut.v, <<"terminal">>)
    /\ Get(execOut.v, <<"terminal">>) = Undefined
    /\ Get(execOut.v, <<"current_scene">>) = Word("scene_1")

\* the language of each locale
LanguageOf ==
    [en_US |-> "English", fr_FR |-> "French", de_DE |-> "German", it_IT |-> "Italian",
     pt_BR |-> "Portuguese", ru_RU |-> "Russian", ja_JP |-> "Japanese",
     ko_KR |-> "Korean", zh_CN |-> "Chinese (Simplified)",
     zh_TW |-> "Chinese (Traditional)", ar_SA |-> "Arabic", hi_IN |-> "Hindi",
     es_ES |-> "Spanish"]

DirectiveHead == "**CRITICAL LANGUAGE REQUIREMENT**: You MUST respond ONLY in "

Prompted == promptOut.n > 0 /\ promptOut.ok

HasDirective == Includes(promptOut.v, DirectiveHead)

\* the name that follows the head of the directive
NamedAfterHead(v) ==
    v[(CHOOSE i \in 1..Len(v) : v[i] = DirectiveHead) + 1]

\* C26: the prompt has a language directive exactly when the active language
\* is not en_US, and the directive names the language of the active locale
DirectiveNamesLocaleLanguage ==
    Prompted =>
        /\ HasDirective <=> registry.currentLanguage # "en_US"
        /\ HasDirective => NamedAfterHead(promptOut.v) = LanguageOf[registry.currentLanguage]

\* the goals of a scene whose owner is the character
OwnGoals(goals, characterId) ==
    SelectSeq(goals, LAMBDA g : g.character_id = characterId)

RECURSIVE LinesOf(_, _)
LinesOf(goals, i) ==
    IF i > Len(goals) THEN <<>>
    ELSE <<"- ">> \o goals[i].description \o <<"\n">> \o LinesOf(goals, i + 1)

PositionOf(v, token) == CHOOSE i \in 1..Len(v) : v[i] = token

GoalsSection(v) ==
    SubSeq(v, PositionOf(v, "**YOUR GOALS IN THIS SCENE**:") + 1,
              PositionOf(v, "Respond naturally as ") - 1)

GoalsOf(reg, sceneId) == reg.scenes[sceneId].goals

SameOwnGoals(reg, other, sceneId, characterId) ==
    OwnGoals(GoalsOf(reg, sceneId), characterId)
        = OwnGoals(GoalsOf(other, sceneId), characterId)

SamePromptIn(other) ==
    SameOwnGoals(registry, other, promptOut.sceneId, promptOut.characterId) =>
        generateSystemPromptFrom(other, promptOut.sceneId, promptOut.characterId).v
            = promptOut.v

\* C27: the prompt made for a character is the same for every scene that
\* differs only in the goals the character does not own, and its goals section
\* lists the goals owned by the character, those and no others, in scene order
PromptOfOwnGoalsOnly ==
    Prompted =>
        /\ GoalsSection(promptOut.v)
              = LinesOf(OwnGoals(GoalsOf(registry, promptOut.sceneId),
                                 promptOut.characterId), 1)
        /\ \A owners \in Ownerships : SamePromptIn(OwnedAs(registry, owners))

\* Riley's prompt in a scene where Sam owns a goal and one goal has no owner
OthersGoalsLeftOut ==
    /\ Prompted
    /\ promptOut.sceneId = "scene_1"
    /\ promptOut.characterId = "riley"
    /\ GoalsOf(registry, "scene_1")[1].character_id = "sam"
    /\ GoalsOf(registry, "scene_1")[2].character_id = "riley"
    /\ GoalsOf(registry, "scene_1")[3].character_id = ""
    /\ GoalsSection(promptOut.v) = <<"- ", "befriend", "\n">>

\* the log of a run of a scene with opening narration begins scene_loaded,
\* typewriter with the intro, request_continue; without opening narration it
\* begins scene_loaded, infer_call
OpeningOf(log, intro) ==
    (Len(log) >= 1 /\ log[1].type = "scene_loaded") =>
       IF intro # <<>>
       THEN /\ Len(log) >= 2 => log[2] = Entry("typewriter", "", intro)
            /\ Len(log) >= 3 => log[3].type = "request_continue"
            /\ Len(log) >= 4 => log[4].type = "infer_call"
       ELSE Len(log) >= 2 /\ log[2].type = "infer_call"

InferCalls(log) == {p \in 1..Len(log) : log[p].type = "infer_call"}

\* the step in which run r issues its first inference call in a scene with
\* opening narration is the step that resolves the continue it asked for
FirstCallStep(old, new, resolver, r) ==
    (/\ Scenes[old.scene].intro # <<>>
     /\ InferCalls(old.log) = {}
     /\ InferCalls(new.log) # {}) =>
        /\ old.pc = "continue"
        /\ old.then = "conversation"
        /\ resolver = r
        /\ Len(old.log) = 3
        /\ InferCalls(new.log) = {4}

\* C28: a scene with opening narration emits scene_loaded, then typewriter
\* with the intro text, then asks for continue, and makes its first inference
\* call only in the step that acknowledges that continue; a scene without
\* opening narration makes the call right after scene_loaded, with no
\* typewriter event and no continue request before it
IntroBeforeFirstInference ==
    /\ [](\A r \in RunIds : OpeningOf(Run(r).log, Scenes[Run(r).scene].intro))
    /\ [][\A r \in RunIds :
            FirstCallStep(runs[r], runs'[r], view.continueResolve, r)]_vars

\* a run of the harbour scene made its first call after the intro was
\* acknowledged, a run of the arrival scene right after scene_loaded
IntroShownThenCalled ==
    \E r, q \in RunIds :
       /\ Run(r).scene = "scene_2"
       /\ Len(Run(r).log) >= 4
       /\ Run(r).log[1].type = "scene_loaded"
       /\ Run(r).log[2] = Entry("typewriter", "", <<"Fog", ".">>)
       /\ Run(r).log[3].type = "request_continue"
       /\ Run(r).log[4].type = "infer_call"
       /\ Run(q).scene = "scene_1"
       /\ Len(Run(q).log) >= 2
       /\ Run(q).log[1].type = "scene_loaded"
       /\ Run(q).log[2].type = "infer_call"

\* the last call was a read-state of a list of paths
ReadOfPaths ==
    /\ execOut.n > 0
    /\ execOut.name = "player2_get_state"
    /\ CanRead(execOut.args)
    /\ Arg(execOut.args, "keys").t = "array"
    /\ \A i \in 1..Len(Arg(execOut.args, "keys").a) :
          Arg(execOut.args, "keys").a[i].t = "string"

RequestedPaths ==
    {Arg(execOut.args, "keys").a[i].s : i \in 1..Len(Arg(execOut.args, "keys").a)}

KeysOf(ob) == {ob.o[i][1] : i \in 1..Len(ob.o)}

\* the value at the end of a dotted path in the state of the store
ValueAt(st, path) == Resolve(StateObject(st), Split(path, 1, <<>>), 1)

\* C29: read-state of a list of paths returns, without an error, an object
\* whose keys are the requested paths, those and no others, each mapped to
\* the value at the end of the path in the store or to undefined when the
\* path leads nowhere, and leaves the store as it was
ReadStateMapsRequestedPaths ==
    ReadOfPaths =>
        /\ ~execOut.threw
        /\ execOut.v.t = "object"
        /\ KeysOf(execOut.v) = RequestedPaths
        /\ \A path \in RequestedPaths :
              Get(execOut.v, path) = ValueAt(execOut.before, path)
        /\ store = execOut.before

\* C30: whatever startScene, the turns of a conversation, the execution of
\* tools and endScene have done, the registry holds the scene, character and
\* item definitions it held after load, and the scene model still shows the
\* definition of its scene as the registry has it
RegistryAsLoaded ==
    /\ registry = Registry
    /\ sceneModel.present =>
          sceneModel.blueprint = registry.scenes[sceneModel.blueprint.id]

\* a scene with narration was started, ran tools and ended; the registry is
\* as it was
RegistryKeptThroughScene ==
    \E r \in RunIds :
       /\ Run(r).scene = "scene_2"
       /\ Run(r).pc = "done"
       /\ \E p \in 1..Len(Run(r).log) : Run(r).log[p].type = "tool_exec"
       /\ \E p \in 1..Len(Run(r).log) : Run(r).log[p].type = "scene_ended"
       /\ registry.scenes["scene_2"].intro = <<"Fog", ".">>
       /\ registry = Registry

\* the last call was a transfer-item whose receiver is the player character
TransferToPlayer ==
    /\ execOut.n > 0
    /\ execOut.name = "player2_transfer_item"
    /\ CanRead(execOut.args)
    /\ Arg(execOut.args, "receiver_id") = Str(<<Game.player_character_id>>)

\* the id of the item asked for, as the registry keys it
ItemAsked == Arg(execOut.args, "item_id").s[1]

Transferred(name) ==
    Obj(<< <<<<"success">>, Bool(TRUE)>>, <<<<"item_transferred">>, Str(name)>> >>)

\* C31: a transfer-item to the player character with an item id the registry
\* knows appends that item to the inventory, changes nothing else in the
\* store and returns success with the name of the item; with an id the
\* registry does not know it returns success false with the not-found error
\* and leaves the store as it was
TransferToPlayerAddsItem ==
    TransferToPlayer =>
        /\ ~execOut.threw
        /\ IF ItemKnown
           THEN /\ store = [execOut.before EXCEPT !.inventory = Append(@, ItemAsked)]
                /\ execOut.v = Transferred(Items[ItemAsked].name)
           ELSE /\ store = execOut.before
                /\ execOut.v = ItemNotFound

\* the key went to the player a second time: the inventory holds it twice
KeyTransferredAgain ==
    /\ TransferToPlayer
    /\ ItemKnown
    /\ execOut.before.inventory = <<"key">>
    /\ store.inventory = <<"key", "key">>
    /\ execOut.v = Transferred(<<"Key">>)

\* the chunks displayDialogue makes of a text
ChunksOf(text) == {Trim(Sentences(text)[k]) : k \in 1..Len(Sentences(text))}

\* the text is a chunk of the content of an assistant message of the transcript
SaidByAssistant(text, messages) ==
    \E m \in 1..Len(messages) :
       /\ messages[m].role = "assistant"
       /\ text \in ChunksOf(messages[m].content)

\* C32: the text of every dialogue_chunk event is a chunk of the content of
\* an assistant message of the transcript of the scene, never the content of
\* a tool message, also after a turn that used up its 5 iterations
DialogueFromAssistantOnly ==
    \A r \in RunIds : \A p \in 1..Len(Run(r).log) :
       Run(r).log[p].type = "dialogue_chunk" =>
          SaidByAssistant(Run(r).log[p].text, conversationHistory)

\* the chunks one after the other
RECURSIVE Joined(_, _)
Joined(chunks, k) ==
    IF k > Len(chunks) THEN <<>> ELSE chunks[k] \o Joined(chunks, k + 1)

Unspaced(text) == SelectSeq(text, LAMBDA tok : ~IsSpace(tok))

\* C33: the chunks emitted for a non-empty text, put one after the other and
\* read without whitespace, are the text read without whitespace, a trailing
\* part without a closing '.', '!' or '?' included
ChunksLoseNoText ==
    (splitOut.n > 0 /\ splitOut.text # <<>>) =>
        Unspaced(Joined(splitOut.chunks, 1)) = Unspaced(splitOut.text)

EndTypes == {"scene_transition", "scene_ended"}

EndPositions(log) == {p \in 1..Len(log) : log[p].type \in EndTypes}

\* what the run logged since chatTurn last stored the transcript
LastHistory(log) ==
    IF \A p \in 1..Len(log) : log[p].type # "set_history" THEN 0
    ELSE CHOOSE p \in 1..Len(log) :
            /\ log[p].type = "set_history"
            /\ \A q \in (p + 1)..Len(log) : log[q].type # "set_history"

AfterHistory(log) == SubSeq(log, LastHistory(log) + 1, Len(log))

TextsOf(entries) == [i \in 1..Len(entries) |-> entries[i].text]

ChunkTextsIn(entries) ==
    TextsOf(SelectSeq(entries, LAMBDA e : e.type = "dialogue_chunk"))

\* a run has at most one end event, it is the last thing the run logged, and
\* a run is over exactly when it has one
EndedOnce(run) ==
    /\ Cardinality(EndPositions(run.log)) <= 1
    /\ EndPositions(run.log) # {} => EndPositions(run.log) = {Len(run.log)}
    /\ run.pc = "done" <=> EndPositions(run.log) # {}

\* the end of a turn that closes the scene: all chunks of the text, then the
\* typewriter event of the outro if there is one, then the end event
ClosingOf(tail, text, outro) ==
    /\ ChunkTextsIn(tail) = (IF text = <<>> THEN <<>> ELSE ChunkTexts(text))
    /\ outro # <<>> =>
          /\ Len(tail) >= 2
          /\ tail[Len(tail) - 1] = Entry("typewriter", "", outro)

\* the step in which a run emits its end event
EndEventStep(old, new) ==
    (EndPositions(old.log) = {} /\ EndPositions(new.log) # {}) =>
       ClosingOf(AfterHistory(new.log),
                 IF old.pc = "infer" THEN new.text ELSE old.text,
                 Scenes[old.scene].outro)

\* C34: a run that ends emits one end event, scene_transition or scene_ended
\* and not both, after all the dialogue chunks of the last reply and after the
\* typewriter event of the outro when the scene has one; the end event is the
\* last thing the run does: no event, inference call or suspension follows
OneEndEventLast ==
    /\ [](\A r \in RunIds : EndedOnce(Run(r)))
    /\ [][\A r \in RunIds : EndEventStep(runs[r], runs'[r])]_vars

\* list a is the beginning of list b
PrefixOf(a, b) == Len(a) <= Len(b) /\ SubSeq(b, 1, Len(a)) = a

\* in the step the run finished a turn: chatTurn stored its messages
TurnSucceeded(old, new) == "set_history" \in NewTypes(old, new)

\* in the step an inference call of the run failed
InferenceFailed(old, new) ==
    /\ Len(new.log) = Len(old.log) + 1
    /\ new.log[Len(new.log)] = Entry("rejected", "chatCompletion", <<>>)

\* the stored transcript before and after a step of a run: a turn that
\* succeeds appends to it, a turn whose inference call fails leaves it and
\* the store as they are
TranscriptStep(old, new, before, after, storeBefore, storeAfter) ==
    /\ TurnSucceeded(old, new) => PrefixOf(before, after) /\ Len(before) < Len(after)
    /\ InferenceFailed(old, new) => after = before /\ storeAfter = storeBefore

\* no call of startScene is part of the step: the scene stays the same
SameScene(old, new) == Len(new) = Len(old)

\* C35: within one scene the stored transcript only grows by appending: a
\* step in which no scene is started leaves it or extends it, after a
\* successful turn the transcript before the turn is a prefix of the new one,
\* and a turn in which an inference call fails leaves the transcript as it
\* was and rolls back nothing that the tools of the turn did to the store
TranscriptOnlyGrows ==
    [][SameScene(runs, runs') =>
          /\ PrefixOf(conversationHistory, conversationHistory')
          /\ \A r \in RunIds :
                TranscriptStep(runs[r], runs'[r], conversationHistory,
                               conversationHistory', store, store')]_vars

\* the result tags of the end-scene tool
ResultTags == {Str(<<"success">>), Str(<<"neutral">>), Str(<<"fail">>)}

\* the end event that the goal list calls for
EndEventFor(goals) == IF NoTransitionGoal(goals) THEN "scene_ended" ELSE "scene_transition"

\* the result tag of the terminal tool call of the log
ResultOf(log) == Get(log[LastTerminal(log)].result, <<"result">>)

\* in the step the run emits its end event: the event is the one the goal
\* list of the loaded scene calls for, whatever the result tag is
EndEventByGoals(old, new, goals) ==
    (EndPositions(old.log) = {} /\ EndPositions(new.log) # {}) =>
       /\ ResultOf(new.log) \in ResultTags
       /\ \A p \in EndPositions(new.log) : new.log[p].type = EndEventFor(goals)

\* C36: which end event a scene emits depends on the goal list of the scene
\* the engine has loaded, and not on the result or the summary of end-scene:
\* with a goal that carries transition_to the event is scene_transition for
\* success, neutral and fail alike, and without one it is scene_ended for
\* all three
EndEventIndependentOfResult ==
    [][\A r \in RunIds :
          EndEventByGoals(runs[r], runs'[r], sceneModel.blueprint.goals)]_vars

\* run r of the scene ended with the result tag and with the event
EndedAs(r, scene, result, type) ==
    /\ Run(r).scene = scene
    /\ Run(r).pc = "done"
    /\ ResultOf(Run(r).log) = Str(<<result>>)
    /\ Run(r).log[Len(Run(r).log)].type = type

\* a scene with a transition goal ended with the result fail and emitted
\* scene_transition, and a scene without one ended with the result neutral
\* and emitted scene_ended
FailTransitionsNeutralEnds ==
    \E r, q \in RunIds :
       /\ EndedAs(r, "scene_1", "fail", "scene_transition")
       /\ EndedAs(q, "scene_2", "neutral", "scene_ended")

\* the result of execute is {success: false, ...}
Unsuccessful(v) ==
    v.t = "object" /\ HasKey(v, <<"success">>) /\ Get(v, <<"success">>) = Bool(FALSE)

\* the tool names that the switch of execute has a case for
SwitchCases ==
    {"player2_get_state", "player2_set_affinity", "player2_set_flag",
     "player2_transfer_item", "player2_update_dossier", "player2_end_scene"}

\* the causes of a result without success
FailureCauses(name, args) ==
    {c \in {"unknown tool", "unknown item", "unsupported receiver", "exception"} :
        \/ c = "unknown tool" /\ name \notin SwitchCases
        \/ c = "unknown item" /\ name = "player2_transfer_item" /\ CanRead(args)
                              /\ getItem(Arg(args, "item_id")) = ""
        \/ c = "unsupported receiver" /\ name = "player2_transfer_item" /\ CanRead(args)
                              /\ getItem(Arg(args, "item_id")) # ""
                              /\ Arg(args, "receiver_id") # Str(<<Game.player_character_id>>)
        \/ c = "exception" /\ ExecuteSwitch(name, args, store).threw}

\* C37: every call of execute whose result is {success: false}, for an
\* unknown tool, an unknown item, an unsupported receiver or a caught
\* exception, leaves the whole store as it was: affinity, flags, vars,
\* inventory, dossier, scene pointer and unlocked routes
FailureLeavesStore ==
    [][(execOut'.n = execOut.n + 1 /\ Unsuccessful(execOut'.v)) =>
          /\ store' = store
          /\ FailureCauses(execOut'.name, execOut'.args) # {}]_vars

\* after a call that changed the store, a call with no arguments threw inside
\* execute, came back without success and left the store
CaughtLeftStore ==
    /\ execOut.n = 2
    /\ ExecuteSwitch(execOut.name, execOut.args, execOut.before).threw
    /\ execOut.args = Null
    /\ Unsuccessful(execOut.v)
    /\ store = execOut.before
    /\ store \notin ExecStores

\* store `after` is store `before` but for the objectives of the dossier
ObjectivesOnly(before, after) ==
    after = [before EXCEPT !.dossier.objectives = after.dossier.objectives]

\* startScene(sceneId), called with any of the stores tried, leaves all of the
\* store but the objectives
LoadKeeps(sceneId) ==
    \A st \in ExecStores :
       ObjectivesOnly(st, startScene([World EXCEPT !.store = st], sceneId).store)

\* C38: loading a scene changes nothing of the store but the objectives: over
\* a call of startScene the notes of the dossier, affinity, flags, vars,
\* inventory, scene pointer and unlocked routes stay as they were
StartSceneKeepsStore ==
    /\ [][StartCall(runs, runs') => ObjectivesOnly(store, store')]_vars
    /\ [](runs = <<>> => \A sceneId \in EngineScenes : LoadKeeps(sceneId))

\* a run set a flag and ended; a scene was loaded after that (the transcript
\* is empty again): its objectives are in the dossier and the flag is kept
LoadedWithFlagKept ==
    /\ Len(runs) = 2
    /\ Run(1).pc = "done"
    /\ Run(2).log[1].type = "scene_loaded"
    /\ Run(2).scene = "scene_2"
    /\ conversationHistory = <<>>
    /\ store.flags = O1("met", Bool(TRUE))
    /\ store.dossier.objectives # <<>>

\* the first invocation of startScene loaded its scene
SceneStarted ==
    /\ Len(runs) >= 1
    /\ \E p \in 1..Len(runs[1].log) : runs[1].log[p].type = "scene_loaded"

\* the run waits for the player's text, or it has emitted its end event
SuspendedOrEnded ==
    /\ Len(runs) >= 1
    /\ \/ runs[1].pc = "input"
       \/ runs[1].pc = "done" /\ EndPositions(runs[1].log) # {}

\* C39: under fairness a scene that was loaded comes, from wherever it is,
\* to wait for the player's text or to its end event: the scene-entry turn
\* and every player turn end in one of the two, no turn runs forever
EveryTurnSettles == SceneStarted ~> SuspendedOrEnded

\* C40: when the scene screen is shown and the engine makes its first
\* inference call, the service is authenticated (a health check has
\* succeeded), whichever way the player came to the scene: a new game
\* through the chapter intro, the submission of an API key, or Continue in
\* the main menu
AuthenticatedAtFirstCall == app.chat # "none" => app.chat = "sent"

====
